---- MODULE Spec2Model ----
(***************************************************************************)
(* Turn resolution and state consistency of the narrative RPG              *)
(* (src/App.tsx, src/unnamed/part_002 = the GameUI component,              *)
(* src/services/engine.ts).                                                *)
(*                                                                         *)
(* The App component owns the canonical GameState; GameUI owns the roll    *)
(* interaction.  Every handler is one action.  A handler that awaits the   *)
(* narrative call is split at the await: the part before it is one action, *)
(* the continuation (response merged, or the catch branch) another, and    *)
(* the pending call is a record of `calls` that carries what the           *)
(* continuation's closure captured.  A roll animation likewise carries the *)
(* values its closure captured when runRollAnimation was called.           *)
(***************************************************************************)
EXTENDS Integers, Sequences, FiniteSets, TLC

(***************************************************************************)
(* Bounds of the model                                                     *)
(***************************************************************************)
\* actions (turns) a run may begin
MaxTurns == 2
\* narrative calls pending at the same time
MaxInFlight == 2
\* power points up to which cheat mode's free exchange is followed
MaxCheatPower == 1
\* fate points up to which cheat mode's free rerolls and customisations are
\* followed within one interaction
MaxCheatSpent == 1

(***************************************************************************)
(* Program constants                                                       *)
(***************************************************************************)
\* BASE_DYNAMIC_STATS[ORDINARY]
BasePoliticalStanding == 60
BaseHealth == 85
BaseMental == 70
BaseRedStars == 3
\* power points of a character who starts as the supreme leader
SupremePowerPoints == 3
\* soft cap of the fate points
RedStarCap == 5
\* the fate points of cheat mode
CheatRedStars == 99
\* exchange cost in fate points: supreme leader, everybody else
ExchangeCostSupreme == 2
ExchangeCostOther == 3
\* fate points for naming an heir of one's own
TestamentCost == 3
ModifierLimit == 20
CrimeSum == -15
\* engine.ts COOLDOWN_MONTHS and the "never granted" stand-in
COOLDOWN_MONTHS == 3
NoGrantMonths == 999
\* reroll step, default difficulty, roll bands
RerollStep == 5
DefaultDifficulty == 50
MinThreshold == 5
MaxThreshold == 95
MinCritThreshold == 20
CritFailBand == 5
EarnStarAbove == 85
\* callWithRetry(fn, retries = 3, initialDelay = 2000)
Retries == 3
InitialDelay == 2000

Null == [null |-> TRUE]
NoDate == [year |-> 0, month |-> 0]
NoCtx == [none |-> TRUE]

Max(a, b) == IF a > b THEN a ELSE b
Min(a, b) == IF a < b THEN a ELSE b

\* year*12 + month, the calendar position the code's month arithmetic uses
MonthIndex(d) == d.year * 12 + d.month

(***************************************************************************)
(* State                                                                   *)
(***************************************************************************)
VARIABLES
    scenario,                    \* the family of inputs this run draws from
    gameState,                   \* App: the live GameState, or Null
    choices,                     \* App: ids of the special choices on offer
    isLoading,                   \* App
    isError,                     \* App
    lastAction,                  \* App: what handleRetry re-issues
    isFactionModalOpen,          \* App
    isLeaderManipulateModalOpen, \* App
    calls,                       \* narrative calls awaited by handleStartGame / handleChoice
    ui,                          \* GameUI: the state of the roll interaction
    anim,                        \* the running roll animation and what its closure captured
    turnNo,                      \* actions begun so far; also names the action text
    ghost                        \* history variable, read by no action (see Init)

vars == << scenario, gameState, choices, isLoading, isError, lastAction,
           isFactionModalOpen, isLeaderManipulateModalOpen, calls, ui, anim, turnNo,
           ghost >>

Scenarios == {"roll", "power", "vitals", "calendar", "factions", "drought",
              "thresholds", "cheat", "fortune", "testament", "traits", "leader",
              "succession", "timeout", "ratelimit"}

\* appSettings.gameSettings.cheatMode, fixed for the whole run: on in the
\* "cheat" scenario (failed draws) and in the "fortune" scenario (critical
\* draws)
cheatMode == scenario \in {"cheat", "fortune"}

(***************************************************************************)
(* Inputs: what the player may be and what the narrative service may       *)
(* answer.  The service is untrusted: its answer does not depend on the    *)
(* instructions the prompt gave it.                                        *)
(***************************************************************************)
SupremeLeaderDefault == "Mao"
\* the supreme leader of an inherited world whose response names none
UnknownLeader == "unknown"
\* the faction of BASE_DYNAMIC_STATS
BaseFaction == "none"
PlayerNames == {"Mao", "Li"}

StartDate == [year |-> 1966, month |-> 12]
RespDates ==
    { [year |-> 1966, month |-> 11],
      [year |-> 1967, month |-> 1],
      [year |-> 1967, month |-> 4] }
PowerDeltas == {-2, 0, 3}
VitalDeltas ==
    { [politicalStanding |-> 0,    health |-> 0,    mental |-> 0],
      [politicalStanding |-> -500, health |-> -500, mental |-> 500],
      [politicalStanding |-> 500,  health |-> -30,  mental |-> -500] }
Draws == {3, 48, 90, 97}
DroughtDraws == {60, 97}
ThresholdDraws == {3}
CheatDraws == {3}
TestamentDraws == {90}

\* a choice's difficulty with the effective value of the attribute it
\* requires: mid-range, just above the floor, below the floor (overflow 15),
\* far below it (overflow 105), above the ceiling
RollInputs ==
    { [difficulty |-> 50,  attrVal |-> 0],
      [difficulty |-> 8,   attrVal |-> 0],
      [difficulty |-> 40,  attrVal |-> 25],
      [difficulty |-> 0,   attrVal |-> 50],
      [difficulty |-> 100, attrVal |-> 0] }
SavedDroughts == {8, 9}


(***************************************************************************)
(* Traits: sanitizeTraits (prompts) and calculateEffectiveAttributes (App)  *)
(*                                                                         *)
(* A proposed modifier value is what the JSON of the service holds: an     *)
(* integer (the response schema declares INTEGER) or a text that is not a  *)
(* number.  A proposed duration is passed through as it is.                *)
(***************************************************************************)
AttributeKeys == {"physique", "intelligence", "spirit", "agility", "charisma", "politics"}
TraitRarities == {"COMMON", "RARE", "EPIC", "LEGENDARY", "CRIME", "NEGATIVE", "HIDDEN"}
Num(n) == [isNumber |-> TRUE, n |-> n]
NonNumeric == [isNumber |-> FALSE, n |-> 0]

\* parseInt(String(val), 10), NaN replaced by 0
ParsedModifier(val) == IF val.isNumber THEN val.n ELSE 0

ClampModifierLoose(numVal) == numVal
ClampModifier(numVal) == Max(-ModifierLimit, Min(ModifierLimit, numVal))

\* the modifiers kept by sanitizeTraits: parsed, clamped, zeros dropped
SanitizedModifiers(t) ==
    LET numVal(k) == ClampModifier(ParsedModifier(t.modifiers[k]))
        kept == { k \in DOMAIN t.modifiers : numVal(k) # 0 }
    IN  [ k \in kept |-> numVal(k) ]

RECURSIVE SumOver(_, _)
SumOver(f, keys) ==
    IF keys = {} THEN 0
    ELSE LET k == CHOOSE x \in keys : TRUE
         IN  f[k] + SumOver(f, keys \ {k})

\* the rarity sanitizeTraits gives a trait whose sanitized modifiers are mods
RarityForTrusting(rarity, mods) ==
    IF rarity \in TraitRarities THEN rarity ELSE "COMMON"
RarityFor(rarity, mods) ==
    LET validRarity == IF rarity \in TraitRarities THEN rarity ELSE "COMMON"
        hasPositive == \E k \in DOMAIN mods : mods[k] > 0
        sumValues == SumOver(mods, DOMAIN mods)
        politicsMod == IF "politics" \in DOMAIN mods THEN mods["politics"] ELSE 0
    IN  IF DOMAIN mods = {} THEN validRarity
        ELSE IF ~hasPositive /\ sumValues < CrimeSum /\ politicsMod < 0 THEN "CRIME"
        ELSE IF ~hasPositive /\ sumValues < 0 /\ validRarity # "CRIME" THEN "NEGATIVE"
        ELSE validRarity

\* the id generated for a trait proposed without one: built from the clock
\* and a random suffix, so distinct from every proposed id
GeneratedId(name) ==
    CASE name = "wounded" -> "trait_wounded"
      [] name = "purged" -> "trait_purged"
      [] OTHER -> "trait_other"

SanitizeTrait(t) ==
    [ id |-> IF t.id = "" THEN GeneratedId(t.name) ELSE t.id,
      name |-> t.name,
      rarity |-> RarityFor(t.rarity, SanitizedModifiers(t)),
      modifiers |-> SanitizedModifiers(t),
      hasDuration |-> t.hasDuration,
      duration |-> t.duration ]

\* sanitizeTraits(traits): [] for anything that is not a list
sanitizeTraits(traits) ==
    IF traits.kind # "list" THEN << >>
    ELSE [ i \in 1..Len(traits.items) |-> SanitizeTrait(traits.items[i]) ]

RECURSIVE SumOfModifiers(_, _)
SumOfModifiers(traits, key) ==
    IF traits = << >> THEN 0
    ELSE (IF key \in DOMAIN Head(traits).modifiers THEN Head(traits).modifiers[key] ELSE 0)
         + SumOfModifiers(Tail(traits), key)

calculateEffectiveAttributesFirstOnly(base, traits) ==
    [ key \in DOMAIN base |->
        base[key] + (IF traits # << >> THEN SumOfModifiers(<< Head(traits) >>, key) ELSE 0) ]
calculateEffectiveAttributes(base, traits) ==
    [ key \in DOMAIN base |-> base[key] + SumOfModifiers(traits, key) ]

(***************************************************************************)
(* The turn merge: updateGameStateFromResponse(response, prevState, ctx)   *)
(***************************************************************************)
PityThreshold == 10
ChoiceDifficulty == 50
EffectiveAttribute == 0
PityDifficulty == 0
PityChoiceId == "pity_custom_action"
SpecialChoiceId == "special_manipulate_scales"
ManipulateActionId == "action_manipulate_scales"
NormalChoiceId == "choice_normal"
TestamentChoiceId == "action_write_testament"

HealthDeathReason == "health_death"
PoliticalPurgeReason == "political_purge"
MentalCollapseReason == "mental_collapse"

\* turnsSinceLastCritical after the turn
NewTurnsSinceCritical(prevState, ctx) ==
    IF ctx # NoCtx /\ ctx.result = "CRITICAL_SUCCESS" THEN 0
    ELSE IF ctx # NoCtx
         THEN IF ctx.choiceId = PityChoiceId THEN 0
              ELSE prevState.turnsSinceLastCritical + 1
         ELSE prevState.turnsSinceLastCritical

\* the pity choice injected only once the counter has passed the threshold
FinalChoicesLate(response, prevState, ctx) ==
    IF NewTurnsSinceCritical(prevState, ctx) > PityThreshold /\ ~prevState.isGameOver
    THEN response.choices \cup {PityChoiceId}
    ELSE response.choices

\* the offered choices: the response's, plus the injected pity choice
FinalChoices(response, prevState, ctx) ==
    IF NewTurnsSinceCritical(prevState, ctx) >= PityThreshold /\ ~prevState.isGameOver
    THEN response.choices \cup {PityChoiceId}
    ELSE response.choices

\* the proposal's delta taken as it comes, without the ceiling
EffectivePowerDeltaUncapped(rawPowerDelta) == rawPowerDelta

\* const effectivePowerDelta = rawPowerDelta > 1 ? 1 : rawPowerDelta
EffectivePowerDelta(rawPowerDelta) ==
    IF rawPowerDelta > 1 THEN 1 ELSE rawPowerDelta

ConsumedPowerOf(ctx) == IF ctx = NoCtx THEN 0 ELSE ctx.consumedPowerPoints
ConsumedStarsOf(ctx) == IF ctx = NoCtx THEN 0 ELSE ctx.consumedRedStars
EarnedStarOf(ctx) == IF ctx = NoCtx THEN FALSE ELSE ctx.earnedStar

\* newLastGrantDate
NewLastGrantDate(response, prevState) ==
    IF EffectivePowerDelta(response.statsDelta.powerPoints) > 0
    THEN [year |-> response.year, month |-> response.month]
    ELSE prevState.lastPowerPointGrantDate

\* newPowerPoints: the capped delta is added, then the power the action
\* consumed is taken off; the floor at zero is inside the second branch only
NewPowerPoints(response, prevState, ctx) ==
    LET eff == EffectivePowerDelta(response.statsDelta.powerPoints)
        gained == prevState.stats.powerPoints + eff
    IN  IF ConsumedPowerOf(ctx) # 0
        THEN Max(0, gained - ConsumedPowerOf(ctx))
        ELSE gained

\* the earned star added without the cap
NewRedStarsUncapped(prevState, ctx) ==
    IF cheatMode THEN CheatRedStars
    ELSE IF EarnedStarOf(ctx)
    THEN prevState.stats.redStars + 1
    ELSE prevState.stats.redStars

\* newRedStars: the consumed stars were already taken from the live state by
\* handleConsumeRedStar; the merge only adds the earned one, and cheat mode
\* pins the value
NewRedStars(prevState, ctx) ==
    IF cheatMode THEN CheatRedStars
    ELSE IF EarnedStarOf(ctx)
    THEN Min(RedStarCap, prevState.stats.redStars + 1)
    ELSE prevState.stats.redStars

\* the sum taken as it comes, without the clamp
ClampVitalUnclamped(prior, delta) == prior + delta

\* Math.max(0, Math.min(100, prior + delta))
ClampVital(prior, delta) == Max(0, Min(100, prior + delta))

\* traitChanges: a REMOVE entry for every active trait whose id is removed,
\* then an ADD entry for every addition
TraitChanges(response, prevState) ==
    LET removed == SelectSeq(prevState.stats.traits,
                             LAMBDA t : t.id \in response.traitsUpdate.removeIds)
        add == response.traitsUpdate.add
    IN  [ n \in 1..Len(removed) |->
            [type |-> "REMOVE", name |-> removed[n].name, rarity |-> removed[n].rarity] ]
        \o [ n \in 1..Len(add) |->
            [type |-> "ADD", name |-> add[n].name, rarity |-> add[n].rarity] ]

\* the HistoryEntry of the turn
NewHistoryEntry(response, prevState, ctx) ==
    [ text   |-> ctx.text,
      year   |-> ctx.date.year,
      month  |-> ctx.date.month,
      result |-> ctx.result,
      traitChanges |-> TraitChanges(response, prevState),
      deltas |->
        [ redStars    |-> (IF ctx.earnedStar THEN 1 ELSE 0) - ctx.consumedRedStars,
          powerPoints |-> EffectivePowerDelta(response.statsDelta.powerPoints)
                            - ctx.consumedPowerPoints ] ]

NewHistory(response, prevState, ctx) ==
    IF ctx # NoCtx
    THEN Append(prevState.historySummary, NewHistoryEntry(response, prevState, ctx))
    ELSE prevState.historySummary

\* the same with political standing looked at before health
GameOverOfPoliticalFirst(response, health, politicalStanding, mental) ==
    LET given == response.gameOverReason
        pick(canned) == IF given # "" THEN given ELSE canned
    IN  IF politicalStanding <= 0
        THEN [isGameOver |-> TRUE, gameOverReason |-> pick(PoliticalPurgeReason)]
        ELSE IF health <= 0
        THEN [isGameOver |-> TRUE, gameOverReason |-> pick(HealthDeathReason)]
        ELSE IF mental <= 0
        THEN [isGameOver |-> TRUE, gameOverReason |-> pick(MentalCollapseReason)]
        ELSE [isGameOver |-> response.isGameOver, gameOverReason |-> given]

\* isGameOver / gameOverReason after the merge
GameOverOf(response, health, politicalStanding, mental) ==
    LET given == response.gameOverReason
        pick(canned) == IF given # "" THEN given ELSE canned
    IN  IF health <= 0
        THEN [isGameOver |-> TRUE, gameOverReason |-> pick(HealthDeathReason)]
        ELSE IF politicalStanding <= 0
        THEN [isGameOver |-> TRUE, gameOverReason |-> pick(PoliticalPurgeReason)]
        ELSE IF mental <= 0
        THEN [isGameOver |-> TRUE, gameOverReason |-> pick(MentalCollapseReason)]
        ELSE [isGameOver |-> response.isGameOver, gameOverReason |-> given]

\* a value of response.factionsUpdate: nothing, a list of factions, or some
\* other JSON value
NoFactionsUpdate == [kind |-> "absent"]
IsArray(value) == value.kind = "list"

\* makeTurn / startGame: a factionsUpdate that is not a list is dropped
SanitizeFactionsUpdate(value) ==
    IF value # NoFactionsUpdate /\ ~IsArray(value) THEN NoFactionsUpdate ELSE value

\* currentFactions
NewFactions(response, prevState) ==
    IF response.factionsUpdate # NoFactionsUpdate /\ IsArray(response.factionsUpdate)
    THEN response.factionsUpdate.items
    ELSE prevState.factions

\* isLeader after the player-faction update of the response
NoFactionUpdate == [absent |-> TRUE]
NewCurrentFaction(response, prevState) ==
    IF response.playerFactionUpdate # NoFactionUpdate
    THEN response.playerFactionUpdate.factionName
    ELSE prevState.stats.currentFaction

\* leaderName.includes(name): the names the rosters list, with the names of
\* the players they contain
Includes(leaderName, name) ==
    \/ leaderName = name
    \/ << leaderName, name >> \in { << "Comrade Li", "Li" >> }

\* the synchronisation of the leader status with the roster: the first entry
\* named like the player's faction, when its leaders are a list
IsListedAsLeader(currentFactions, currentFaction, name) ==
    /\ \E i \in 1..Len(currentFactions) : currentFactions[i].name = currentFaction
    /\ LET first == CHOOSE i \in 1..Len(currentFactions) :
                       /\ currentFactions[i].name = currentFaction
                       /\ \A j \in 1..(i - 1) : currentFactions[j].name # currentFaction
           playerFactionObj == currentFactions[first]
       IN  /\ "leaders" \in DOMAIN playerFactionObj
           /\ \E leaderName \in playerFactionObj.leaders : Includes(leaderName, name)

NewIsLeader(response, prevState) ==
    LET isLeader == IF response.playerFactionUpdate # NoFactionUpdate
                    THEN response.playerFactionUpdate.isLeader
                    ELSE prevState.stats.isLeader
    IN  \/ isLeader
        \/ IsListedAsLeader(NewFactions(response, prevState),
                            NewCurrentFaction(response, prevState), prevState.name)

\* the active traits after the trait update of the response and the passing
\* of the months
NoTraitsUpdate == [add |-> << >>, removeIds |-> {}]
RECURSIVE AddTraits(_, _)

\* no eviction
RemoveFirstNamedNone(traits, name) == traits

\* findIndex by name and splice: the first trait of that name leaves
RemoveFirstNamed(traits, name) ==
    IF \E i \in 1..Len(traits) : traits[i].name = name
    THEN LET existingIndex == CHOOSE i \in 1..Len(traits) :
                                 /\ traits[i].name = name
                                 /\ \A j \in 1..(i - 1) : traits[j].name # name
         IN  SubSeq(traits, 1, existingIndex - 1)
                \o SubSeq(traits, existingIndex + 1, Len(traits))
    ELSE traits

AddTraits(currentTraits, add) ==
    IF add = << >> THEN currentTraits
    ELSE AddTraits(Append(RemoveFirstNamed(currentTraits, Head(add).name), Head(add)),
                   Tail(add))

Expire(traits, monthsPassed) ==
    LET aged == [ i \in 1..Len(traits) |->
                    IF traits[i].hasDuration
                    THEN [traits[i] EXCEPT !.duration = @ - monthsPassed]
                    ELSE traits[i] ]
        alive(t) == ~t.hasDuration \/ t.duration > 0
    IN  SelectSeq(aged, alive)

NewTraits(response, prevState) ==
    LET monthsPassed == MonthIndex(response) - MonthIndex(prevState)
        kept == SelectSeq(prevState.stats.traits,
                          LAMBDA t : t.id \notin response.traitsUpdate.removeIds)
        currentTraits == AddTraits(kept, response.traitsUpdate.add)
    IN  IF monthsPassed > 0 THEN Expire(currentTraits, monthsPassed) ELSE currentTraits

\* the GameState handed to setGameState at the end of the merge
UpdateGameStateFromResponse(response, prevState, ctx) ==
    LET ps == ClampVital(prevState.stats.politicalStanding, response.statsDelta.politicalStanding)
        hp == ClampVital(prevState.stats.health, response.statsDelta.health)
        mt == ClampVital(prevState.stats.mental, response.statsDelta.mental)
        over == GameOverOf(response, hp, ps, mt)
    IN  [ prevState EXCEPT
            !.year = response.year,
            !.month = response.month,
            !.stats = [ @ EXCEPT
                          !.politicalStanding = ps,
                          !.health = hp,
                          !.mental = mt,
                          !.redStars = NewRedStars(prevState, ctx),
                          !.powerPoints = NewPowerPoints(response, prevState, ctx),
                          !.currentFaction = NewCurrentFaction(response, prevState),
                          !.isLeader = NewIsLeader(response, prevState),
                          !.traits = NewTraits(response, prevState) ],
            !.factions = NewFactions(response, prevState),
            !.isGameOver = over.isGameOver,
            !.gameOverReason = over.gameOverReason,
            !.historySummary = NewHistory(response, prevState, ctx),
            !.potentialSuccessors = response.potentialSuccessors,
            !.turnsSinceLastCritical = NewTurnsSinceCritical(prevState, ctx),
            !.lastPowerPointGrantDate = NewLastGrantDate(response, prevState) ]

(***************************************************************************)
(* makeTurn: what the prompt tells the service about power points          *)
(***************************************************************************)
MonthsSinceGrant(currentState) ==
    IF currentState.lastPowerPointGrantDate # NoDate
    THEN MonthIndex(currentState) - MonthIndex(currentState.lastPowerPointGrantDate)
    ELSE NoGrantMonths

PowerPointInstruction(currentState) ==
    IF ~currentState.stats.isLeader THEN "NOT_LEADER"
    ELSE IF MonthsSinceGrant(currentState) < COOLDOWN_MONTHS THEN "COOLDOWN_ACTIVE"
    ELSE "READY"

(***************************************************************************)
(* GameUI: thresholds and outcome of a draw                                *)
(***************************************************************************)
\* the thresholds without the floor of 5 and the ceiling of 95
getRollStatsUnclamped(baseDifficulty, attrVal) ==
    LET rawThreshold == baseDifficulty - (attrVal * 2)
        overflow == IF rawThreshold < MinThreshold THEN MinThreshold - rawThreshold ELSE 0
    IN  [ effectiveThreshold |-> rawThreshold,
          critThreshold      |-> Max(MinCritThreshold, MaxThreshold - overflow),
          rawThreshold       |-> rawThreshold ]

getRollStats(baseDifficulty, attrVal) ==
    LET rawThreshold == baseDifficulty - (attrVal * 2)
        overflow == IF rawThreshold < MinThreshold THEN MinThreshold - rawThreshold ELSE 0
    IN  [ effectiveThreshold |-> Max(MinThreshold, Min(MaxThreshold, rawThreshold)),
          critThreshold      |-> Max(MinCritThreshold, MaxThreshold - overflow),
          rawThreshold       |-> rawThreshold ]

\* the outcome with a draw equal to the threshold counted as a success
RollOutcomeInclusive(roll, threshold, critThreshold) ==
    IF roll <= CritFailBand THEN "CRITICAL_FAILURE"
    ELSE IF roll >= critThreshold THEN "CRITICAL_SUCCESS"
    ELSE IF roll >= threshold THEN "SUCCESS"
    ELSE "FAILURE"

RollOutcome(roll, threshold, critThreshold) ==
    IF roll <= CritFailBand THEN "CRITICAL_FAILURE"
    ELSE IF roll >= critThreshold THEN "CRITICAL_SUCCESS"
    ELSE IF roll > threshold THEN "SUCCESS"
    ELSE "FAILURE"

EarnStar(roll, result) == roll > EarnStarAbove /\ result = "SUCCESS"


(***************************************************************************)
(* Initial state                                                           *)
(***************************************************************************)
NoChoice == [id |-> "", text |-> 0]
NoPending == [choice |-> NoChoice, result |-> "NONE"]
NoAction == [type |-> "NONE"]

InitUI ==
    [ rollingChoice            |-> NoChoice,
      calculatedThreshold      |-> 0,
      activeCritThreshold      |-> 95,
      showRerollModal          |-> FALSE,
      showCriticalCustomModal  |-> FALSE,
      pendingFailure           |-> NoPending,
      pendingCritical          |-> NoChoice,
      isLeaderManipulating     |-> FALSE,
      isPityAction             |-> FALSE,
      isWritingTestament       |-> FALSE,
      showTestamentCustomInput |-> FALSE,
      interactionStarsConsumed |-> 0 ]

Init ==
    /\ scenario \in Scenarios
    /\ gameState = Null
    /\ choices = {}
    /\ isLoading = FALSE
    /\ isError = FALSE
    /\ lastAction = NoAction
    /\ isFactionModalOpen = FALSE
    /\ isLeaderManipulateModalOpen = FALSE
    /\ calls = << >>
    /\ ui = InitUI
    /\ anim = Null
    /\ turnNo = 0
    \* starsSpent: fate points taken from the live state since the current
    \*   interaction began;
    \* firstAttempt: the closure state lastAction was first submitted with, or
    \*   Null once anything but that action's own attempts changed the live state;
    \* merged: the power points before the last merge and the delta it was
    \*   proposed
    \* failed: the operation that failed last, when it was the one issued last
    \*   and nothing else was in flight, until another operation is issued;
    \* restarted: handleRestart('new') was taken and no character was started
    \*   and no save loaded since
    \* drawn: the threshold and the critical floor of the draw that opened the
    \*   critical offer, until the offer is answered
    \* answeredLate: the narrative service answered a turn that had timed out,
    \*   and no turn was submitted since
    /\ ghost = [starsSpent |-> 0, firstAttempt |-> Null, merged |-> Null,
                failed |-> Null, restarted |-> FALSE, drawn |-> Null,
                answeredLate |-> FALSE]

(***************************************************************************)
(* What the narrative service may answer in each scenario                  *)
(***************************************************************************)
\* what a proposal may say about the end of the game
ProposalReason == "proposal_reason"
ProposedEndings ==
    { [isGameOver |-> FALSE, gameOverReason |-> ""],
      [isGameOver |-> TRUE,  gameOverReason |-> ProposalReason],
      [isGameOver |-> FALSE, gameOverReason |-> ProposalReason] }

\* rosters a proposal may carry: shares that sum to 100, shares that do not,
\* a share outside [0,100]
BalancedRoster ==
    << [name |-> "rebels", percentage |-> 60], [name |-> "royalists", percentage |-> 40] >>
HeavyRoster ==
    << [name |-> "rebels", percentage |-> 70], [name |-> "royalists", percentage |-> 70] >>
WildRoster ==
    << [name |-> "rebels", percentage |-> 150], [name |-> "royalists", percentage |-> -50] >>

\* what the service may put in factionsUpdate
FactionsUpdates ==
    { NoFactionsUpdate,
      [kind |-> "object"],
      [kind |-> "list", items |-> << >>],
      [kind |-> "list", items |-> BalancedRoster],
      [kind |-> "list", items |-> HeavyRoster],
      [kind |-> "list", items |-> WildRoster] }

NoVitalDelta == [politicalStanding |-> 0, health |-> 0, mental |-> 0]

\* the date a service that follows "advance time by 1 month" answers
NextMonth(d) ==
    IF d.month >= 12 THEN [year |-> d.year + 1, month |-> 1]
    ELSE [year |-> d.year, month |-> d.month + 1]

\* the special choices a response offers beside the standard ones
OfferedChoices ==
    IF scenario = "testament" THEN {SpecialChoiceId, TestamentChoiceId}
    ELSE {SpecialChoiceId}

Response(date, vit, power, over, pfu) ==
    [ year |-> date.year, month |-> date.month,
      statsDelta |-> [ politicalStanding |-> vit.politicalStanding,
                       health |-> vit.health,
                       mental |-> vit.mental,
                       powerPoints |-> power ],
      isGameOver |-> over,
      gameOverReason |-> "",
      choices |-> OfferedChoices,
      playerFactionUpdate |-> pfu,
      factionsUpdate |-> NoFactionsUpdate,
      traitsUpdate |-> NoTraitsUpdate,
      potentialSuccessors |-> {} ]

\* proposed traits: a mild wound that heals in a month; a severe political
\* stain that carries the id of the wound, an unknown rarity and no duration;
\* a wound without id, tagged CRIME, with an out-of-range modifier and no
\* month left; a trait with a positive, an out-of-range, a zero and a
\* non-numeric modifier
Wounded ==
    [ id |-> "t1", name |-> "wounded", rarity |-> "COMMON",
      modifiers |-> [physique |-> Num(-3)], hasDuration |-> TRUE, duration |-> 1 ]
Purged ==
    [ id |-> "t1", name |-> "purged", rarity |-> "legendery",
      modifiers |-> [politics |-> Num(-12), charisma |-> Num(-6)],
      hasDuration |-> FALSE, duration |-> 0 ]
Crippled ==
    [ id |-> "", name |-> "wounded", rarity |-> "CRIME",
      modifiers |-> [physique |-> Num(-30)],
      hasDuration |-> TRUE, duration |-> 0 ]
Veteran ==
    [ id |-> "t0", name |-> "veteran", rarity |-> "RARE",
      modifiers |-> [politics |-> Num(2), physique |-> Num(25), agility |-> Num(0),
                     spirit |-> NonNumeric],
      hasDuration |-> FALSE, duration |-> 0 ]
List(items) == [kind |-> "list", items |-> items]
ProposedTraitsUpdates ==
    { [add |-> [kind |-> "absent"], removeIds |-> {}],
      [add |-> List(<< Wounded >>), removeIds |-> {}],
      [add |-> List(<< Purged >>), removeIds |-> {}],
      [add |-> List(<< Wounded, Crippled >>), removeIds |-> {"t1"}],
      [add |-> [kind |-> "text"], removeIds |-> {"t0"}] }

\* makeTurn and startGame hand the proposed additions to sanitizeTraits
SanitizeTraitsUpdate(u) == [add |-> sanitizeTraits(u.add), removeIds |-> u.removeIds]

\* the traits of the character creation and of a repaired save
CreationTraits ==
    IF scenario = "traits" THEN sanitizeTraits(List(<< Veteran >>)) ELSE << >>
\* the base attributes the player chose
BaseAttributes == [ key \in AttributeKeys |-> 5 ]
Config(name) == [name |-> name, traits |-> CreationTraits, attributes |-> BaseAttributes]

\* the successor a game-over response offers, with the attributes
\* handleInheritGame gives an heir and the traits generated for the heir
HeirName == "Hong"
HeirAttributes == [BaseAttributes EXCEPT !["politics"] = 7, !["charisma"] = 7]
HeirTraits == { sanitizeTraits(List(<< Wounded >>)) }

\* rosters with leaders: the rebels led by Chen, and led by "Comrade Li"
ChenLeads ==
    << [name |-> "rebels", percentage |-> 60, leaders |-> {"Chen"}],
       [name |-> "royalists", percentage |-> 40, leaders |-> {"Comrade Li"}] >>
LiLeads ==
    << [name |-> "rebels", percentage |-> 60, leaders |-> {"Chen", "Comrade Li"}],
       [name |-> "royalists", percentage |-> 40, leaders |-> {"Wang"}] >>
LeaderRosters == { NoFactionsUpdate, List(LiLeads) }
PlayerFactionUpdates ==
    { NoFactionUpdate,
      [factionName |-> "rebels", isLeader |-> TRUE],
      [factionName |-> "royalists", isLeader |-> FALSE] }

\* makeTurn grants the trait of the supreme leader to a supreme leader who
\* does not have it and is not being given it
SupremeTrait ==
    [ id |-> "trait_supreme", name |-> "supreme leader", rarity |-> "LEGENDARY",
      modifiers |-> [politics |-> 10, charisma |-> 10, spirit |-> 5],
      hasDuration |-> FALSE, duration |-> 0 ]
HasTraitNamed(traits, name) == \E n \in 1..Len(traits) : traits[n].name = name
AutoGrant(data, currentState) ==
    IF /\ currentState.supremeLeader = currentState.name
       /\ ~HasTraitNamed(currentState.stats.traits, SupremeTrait.name)
       /\ ~HasTraitNamed(data.traitsUpdate.add, SupremeTrait.name)
    THEN [data EXCEPT !.traitsUpdate.add = Append(@, SupremeTrait)]
    ELSE data

ParsedTurnResponses(prevState) ==
    CASE scenario = "power" ->
           { Response(NextMonth(prevState), NoVitalDelta, p, FALSE, NoFactionUpdate) :
                p \in PowerDeltas }
      [] scenario = "calendar" ->
           { Response(d, NoVitalDelta, 0, FALSE, NoFactionUpdate) : d \in RespDates }
      [] scenario = "factions" ->
           { [Response(NextMonth(prevState), NoVitalDelta, 0, FALSE, NoFactionUpdate)
                 EXCEPT !.factionsUpdate = SanitizeFactionsUpdate(u)] :
                u \in FactionsUpdates }
      [] scenario = "drought" ->
           { Response(NextMonth(prevState), NoVitalDelta, 0, over, NoFactionUpdate) :
                over \in BOOLEAN }
      [] scenario = "succession" ->
           { [Response(NextMonth(prevState), NoVitalDelta, 0, over, NoFactionUpdate)
                 EXCEPT !.potentialSuccessors = successors] :
                over \in BOOLEAN, successors \in {{}, {HeirName}} }
      [] scenario = "traits" ->
           { [Response(d, NoVitalDelta, 0, FALSE, NoFactionUpdate)
                 EXCEPT !.traitsUpdate = SanitizeTraitsUpdate(u)] :
                d \in {NextMonth(prevState), [year |-> prevState.year, month |-> prevState.month]},
                u \in ProposedTraitsUpdates }
      [] scenario = "leader" ->
           { [Response(NextMonth(prevState), NoVitalDelta, 0, FALSE, pfu)
                 EXCEPT !.factionsUpdate = SanitizeFactionsUpdate(u)] :
                pfu \in PlayerFactionUpdates, u \in LeaderRosters }
      [] scenario = "vitals" ->
           { [Response(NextMonth(prevState), v, 0, o.isGameOver, NoFactionUpdate)
                 EXCEPT !.gameOverReason = o.gameOverReason] :
                v \in VitalDeltas, o \in ProposedEndings }
      [] OTHER ->
           { Response(NextMonth(prevState), NoVitalDelta, 0, FALSE, NoFactionUpdate) }

TurnResponses(prevState) ==
    { AutoGrant(data, prevState) : data \in ParsedTurnResponses(prevState) }

\* what startGame answers when it is told the world of a predecessor
InheritResponses(previousState) ==
    { Response(NextMonth(previousState), NoVitalDelta, 0, FALSE, NoFactionUpdate) }

StartResponses ==
    IF scenario = "leader"
    THEN { [Response(StartDate, NoVitalDelta, 0, FALSE, [factionName |-> "rebels", isLeader |-> FALSE])
              EXCEPT !.factionsUpdate = SanitizeFactionsUpdate(List(ChenLeads))] }
    ELSE IF scenario = "factions"
    THEN { [Response(StartDate, NoVitalDelta, 0, FALSE, NoFactionUpdate)
              EXCEPT !.factionsUpdate = SanitizeFactionsUpdate(u)] :
              u \in {NoFactionsUpdate, [kind |-> "list", items |-> BalancedRoster]} }
    ELSE { Response(StartDate, NoVitalDelta, 0, FALSE, NoFactionUpdate) }

DrawsOf ==
    IF scenario = "roll" THEN Draws
    ELSE IF scenario = "drought" THEN DroughtDraws
    ELSE IF scenario = "thresholds" THEN ThresholdDraws
    ELSE IF scenario = "cheat" THEN CheatDraws
    ELSE IF scenario = "fortune" THEN {97}
    ELSE IF scenario = "testament" THEN TestamentDraws
    ELSE {60}

\* the effective attributes App hands to GameUI
EffectiveAttributes ==
    calculateEffectiveAttributes(gameState.stats.attributes, gameState.stats.traits)

\* in the "traits" scenario the choice requires physique
RollInputsOf ==
    IF scenario = "thresholds" THEN RollInputs
    ELSE IF scenario = "traits"
    THEN { [difficulty |-> ChoiceDifficulty, attrVal |-> EffectiveAttributes["physique"]] }
    ELSE { [difficulty |-> ChoiceDifficulty, attrVal |-> EffectiveAttribute] }

\* the supreme leader's actions are played in the "power" scenario
NamesOf == IF scenario = "power" THEN PlayerNames ELSE PlayerNames \ {SupremeLeaderDefault}

(***************************************************************************)
(* Which layer of the screen takes the pointer                             *)
(***************************************************************************)
LeaderModalTop == isLeaderManipulateModalOpen
FactionModalTop ==
    /\ ~isLeaderManipulateModalOpen
    /\ isFactionModalOpen /\ gameState # Null
GameUIModalTop ==
    /\ ~isLeaderManipulateModalOpen
    /\ ~(isFactionModalOpen /\ gameState # Null)
    /\ gameState # Null
    /\ (ui.showRerollModal \/ ui.showCriticalCustomModal)
TestamentModalTop ==
    /\ ~isLeaderManipulateModalOpen
    /\ ~(isFactionModalOpen /\ gameState # Null)
    /\ gameState # Null
    /\ ui.isWritingTestament
ErrorTop ==
    /\ isError
    /\ ~isLeaderManipulateModalOpen
    /\ ~(isFactionModalOpen /\ gameState # Null)
    /\ ~(gameState # Null /\ (ui.showRerollModal \/ ui.showCriticalCustomModal))
    /\ ~(gameState # Null /\ ui.isWritingTestament)
BaseTop ==
    /\ gameState # Null
    /\ ~isLeaderManipulateModalOpen
    /\ ~isFactionModalOpen
    /\ ~isError
    /\ ~ui.showRerollModal /\ ~ui.showCriticalCustomModal
    /\ ~ui.isWritingTestament
    /\ ui.rollingChoice = NoChoice

isSupremeLeader(gs) == gs # Null /\ gs.name = gs.supremeLeader

\* every other pending turn sees the live state change under it: what the
\* live state was when it was submitted is no longer what a failure of it
\* alone would have to restore
Disturb(cs) ==
    [ k \in 1..Len(cs) |->
        IF cs[k].type = "TURN"
        THEN [cs[k] EXCEPT !.stateAtSubmit = Null, !.retryOf = Null]
        ELSE cs[k] ]

\* the same for the first attempt of lastAction
DisturbFirst == [ghost EXCEPT !.firstAttempt = Null]

\* a call is issued: the calls in flight are no longer the latest
Older(cs) == [ k \in 1..Len(cs) |-> [cs[k] EXCEPT !.latest = FALSE] ]
Reissue == [DisturbFirst EXCEPT !.failed = Null, !.restarted = FALSE]

\* what an operation was issued with
Operation(call) ==
    [ type |-> call.type, params |-> call.params,
      previousState |-> IF call.type = "INHERIT" THEN call.previousState ELSE Null ]

Merged(response, prevState) ==
    [ powerDelta |-> response.statsDelta.powerPoints,
      prior |-> prevState.stats.powerPoints ]

RemoveAt(seq, i) == SubSeq(seq, 1, i - 1) \o SubSeq(seq, i + 1, Len(seq))


(***************************************************************************)
(* App: handleStartGame                                                    *)
(***************************************************************************)
\* up to the await of startGame; called from the character-creation screen
StartGameCall(cfg) ==
    /\ Len(calls) < MaxInFlight
    /\ gameState' = Null
    /\ isLoading' = TRUE
    /\ isError' = FALSE
    /\ lastAction' = [type |-> "START", params |-> cfg]
    /\ calls' = Append(Older(Disturb(calls)),
                       [type |-> "START", params |-> cfg, latest |-> TRUE])
    /\ ghost' = Reissue

HandleStartGame(name) ==
    /\ gameState = Null /\ ~isLoading /\ ~isError
    /\ StartGameCall(Config(name))
    /\ UNCHANGED << scenario, choices, isFactionModalOpen,
                    isLeaderManipulateModalOpen, ui, anim, turnNo >>

\* the GameState built from the start response, before the merge
InitialState(cfg, response) ==
    LET supremeLeaderName == SupremeLeaderDefault
        supreme == (cfg.name = supremeLeaderName)
        leaderByFaction == IF response.playerFactionUpdate # NoFactionUpdate
                           THEN response.playerFactionUpdate.isLeader
                           ELSE FALSE
    IN  [ name |-> cfg.name,
          year |-> response.year,
          month |-> response.month,
          stats |-> [ politicalStanding |-> BasePoliticalStanding,
                      health |-> BaseHealth,
                      mental |-> BaseMental,
                      redStars |-> IF cheatMode THEN CheatRedStars ELSE BaseRedStars,
                      powerPoints |-> IF supreme THEN SupremePowerPoints ELSE 0,
                      currentFaction |-> IF response.playerFactionUpdate # NoFactionUpdate
                                         THEN response.playerFactionUpdate.factionName
                                         ELSE BaseFaction,
                      isLeader |-> IF supreme THEN TRUE ELSE leaderByFaction,
                      attributes |-> cfg.attributes,
                      traits |-> cfg.traits ],
          supremeLeader |-> supremeLeaderName,
          factions |-> IF response.factionsUpdate # NoFactionsUpdate
                          /\ IsArray(response.factionsUpdate)
                       THEN response.factionsUpdate.items
                       ELSE << >>,
          historySummary |-> << >>,
          potentialSuccessors |-> {},
          isGameOver |-> FALSE,
          gameOverReason |-> "",
          turnsSinceLastCritical |-> 0,
          lastPowerPointGrantDate |-> NoDate ]

\* the continuation of handleStartGame after a response
StartLands(i, response) ==
    /\ i \in 1..Len(calls) /\ calls[i].type = "START"
    /\ LET initialState == InitialState(calls[i].params, response)
       IN  /\ gameState' = UpdateGameStateFromResponse(response, initialState, NoCtx)
           /\ choices' = FinalChoices(response, initialState, NoCtx)
    /\ isLoading' = FALSE
    /\ calls' = RemoveAt(calls, i)
    /\ ghost' = [DisturbFirst EXCEPT
                   !.merged = Merged(response, InitialState(calls[i].params, response))]
    /\ UNCHANGED << scenario, isError, lastAction, isFactionModalOpen,
                    isLeaderManipulateModalOpen, ui, anim, turnNo >>

(***************************************************************************)
(* App: handleLoadGame (taken on the start screen)                         *)
(***************************************************************************)
\* what a save file may hold after repair: a game some turns into a drought,
\* or a game with the fate points at their cap
SavedGames ==
    IF scenario = "drought"
    THEN { [InitialState(Config("Li"),
                         Response(StartDate, NoVitalDelta, 0, FALSE, NoFactionUpdate))
               EXCEPT !.turnsSinceLastCritical = n] : n \in SavedDroughts }
    ELSE IF scenario = "traits"
    THEN { [InitialState(Config("Li"),
                         Response(StartDate, NoVitalDelta, 0, FALSE, NoFactionUpdate))
               EXCEPT !.stats.traits = sanitizeTraits(List(<< Veteran, Purged >>))] }
    ELSE { [InitialState(Config("Li"),
                         Response(StartDate, NoVitalDelta, 0, FALSE, NoFactionUpdate))
               EXCEPT !.stats.redStars = RedStarCap] }

\* handleLoadGame up to its first await
HandleLoadGame ==
    /\ scenario \in {"drought", "testament", "traits"}
    /\ gameState = Null /\ ~isLoading /\ ~isError
    /\ Len(calls) < MaxInFlight
    /\ gameState' = Null
    /\ isLoading' = TRUE
    /\ isError' = FALSE
    /\ calls' = Append(Older(Disturb(calls)), [type |-> "LOAD", latest |-> TRUE])
    /\ ghost' = Reissue
    /\ UNCHANGED << scenario, choices, lastAction, isFactionModalOpen,
                    isLeaderManipulateModalOpen, ui, anim, turnNo >>

\* the continuation of handleLoadGame: the repaired save becomes the state,
\* and three standard choices are offered
LoadLands(i, repairedState) ==
    /\ i \in 1..Len(calls) /\ calls[i].type = "LOAD"
    /\ gameState' = repairedState
    /\ choices' = {}
    /\ isLoading' = FALSE
    /\ calls' = RemoveAt(calls, i)
    /\ ghost' = DisturbFirst
    /\ UNCHANGED << scenario, isError, lastAction, isFactionModalOpen,
                    isLeaderManipulateModalOpen, ui, anim, turnNo >>

(***************************************************************************)
(* App: handleChoice                                                       *)
(***************************************************************************)
IsManipulationAction(choiceId) ==
    choiceId = ManipulateActionId \/ choiceId = SpecialChoiceId

ConsumedPowerPoints(choiceId) == IF IsManipulationAction(choiceId) THEN 1 ELSE 0

\* the optimistic debit: setGameState(prev => ...) on the live state
OptimisticDebit(live, consumed) ==
    IF consumed > 0 /\ live # Null
    THEN [live EXCEPT !.stats.powerPoints = Max(0, @ - consumed)]
    ELSE live

\* handleChoice up to the await of makeTurn.  closureState is the gameState of
\* the render this handleChoice belongs to; the live state may be newer.
\* retryOf is Null, or what ghost.firstAttempt holds when handleRetry calls.
HandleChoiceFrom(closureState, params, retryOf) ==
    /\ closureState # Null
    /\ Len(calls) < MaxInFlight
    /\ isLoading' = TRUE
    /\ isError' = FALSE
    /\ lastAction' = [type |-> "TURN", params |-> params]
    /\ gameState' = OptimisticDebit(gameState, ConsumedPowerPoints(params.choiceId))
    /\ calls' = Append(Older(IF gameState' # gameState THEN Disturb(calls) ELSE calls),
                  [ type |-> "TURN",
                    params |-> params,
                    prevState |-> closureState,
                    consumedPowerPoints |-> ConsumedPowerPoints(params.choiceId),
                    stateAtSubmit |-> gameState,
                    starsSpent |-> ghost.starsSpent,
                    attempt |-> 0,
                    delay |-> 0,
                    retryOf |-> retryOf,
                    latest |-> TRUE ])
    /\ ghost' = [ghost EXCEPT
                   !.starsSpent = 0,
                   !.drawn = Null,
                   !.answeredLate = FALSE,
                   !.failed = Null,
                   !.firstAttempt = IF retryOf = Null THEN closureState ELSE @]

HandleChoice(closureState, params) == HandleChoiceFrom(closureState, params, Null)

Params(choice, rollResult, earnStar, consumedRedStars) ==
    [ choiceId |-> choice.id, choiceText |-> choice.text, rollResult |-> rollResult,
      earnStar |-> earnStar, consumedRedStars |-> consumedRedStars ]

ActionContext(call) ==
    [ text |-> call.params.choiceText,
      result |-> call.params.rollResult,
      date |-> [year |-> call.prevState.year, month |-> call.prevState.month],
      earnedStar |-> call.params.earnStar,
      consumedRedStars |-> call.params.consumedRedStars,
      consumedPowerPoints |-> call.consumedPowerPoints,
      choiceId |-> call.params.choiceId ]

\* the continuation of handleChoice after makeTurn answered
TurnLands(i, response) ==
    /\ i \in 1..Len(calls) /\ calls[i].type = "TURN"
    /\ isLoading' = FALSE
    /\ calls' = Disturb(RemoveAt(calls, i))
    /\ gameState' = UpdateGameStateFromResponse(response, calls[i].prevState, ActionContext(calls[i]))
    /\ choices' = FinalChoices(response, calls[i].prevState, ActionContext(calls[i]))
    /\ ghost' = [DisturbFirst EXCEPT !.merged = Merged(response, calls[i].prevState)]
    /\ UNCHANGED << scenario, isError, lastAction, isFactionModalOpen,
                    isLeaderManipulateModalOpen, ui, anim, turnNo >>

\* the catch branch of handleStartGame / handleChoice: the service call
\* rejects (transport error, a response that does not parse, or a timeout
\* whose underlying call is not followed further)
CallFails(i) ==
    /\ i \in 1..Len(calls) /\ calls[i].type \notin {"TRAITS", "LATE"}
    /\ isError' = TRUE
    /\ isLoading' = FALSE
    /\ calls' = RemoveAt(calls, i)
    /\ ghost' = [ghost EXCEPT
                   !.failed = IF calls[i].latest /\ Len(calls) = 1 /\ calls[i].type # "LOAD"
                              THEN Operation(calls[i])
                              ELSE Null]
    /\ UNCHANGED << scenario, gameState, choices, lastAction, isFactionModalOpen,
                    isLeaderManipulateModalOpen, ui, anim, turnNo >>

\* how an invocation of fn inside callWithRetry may settle: a result, or an
\* error (rate limit by status, quota by message, anything else)
Outcomes == {"ok", "429", "quota", "RESOURCE_EXHAUSTED", "network"}

\* isRateLimit
isRateLimit(error) == error \in {"429", "quota", "RESOURCE_EXHAUSTED"}

\* the same with the delay never doubled
callWithRetryFixedDelay(attempt, outcome) ==
    IF outcome = "ok" THEN [kind |-> "return", attempt |-> attempt, delay |-> 0]
    ELSE IF isRateLimit(outcome) /\ attempt < Retries
    THEN [kind |-> "wait", attempt |-> attempt + 1, delay |-> InitialDelay]
    ELSE [kind |-> "throw", attempt |-> attempt, delay |-> 0, error |-> outcome]

\* one round of the loop of callWithRetry, entered with the counter attempt,
\* in which fn settles with outcome: return the result, wait and go round
\* again with the counter raised, or throw the error
callWithRetry(attempt, outcome) ==
    IF outcome = "ok" THEN [kind |-> "return", attempt |-> attempt, delay |-> 0]
    ELSE IF isRateLimit(outcome) /\ attempt < Retries
    THEN [kind |-> "wait", attempt |-> attempt + 1, delay |-> InitialDelay * 2^attempt]
    ELSE [kind |-> "throw", attempt |-> attempt, delay |-> 0, error |-> outcome]

\* inside makeTurn, unifiedGenerate's callWithRetry meets an error after which
\* it waits and invokes fn again (the other outcomes end makeTurn: TurnLands,
\* CallFails)
AttemptRateLimited(i, outcome) ==
    /\ scenario = "ratelimit"
    /\ i \in 1..Len(calls) /\ calls[i].type = "TURN"
    /\ callWithRetry(calls[i].attempt, outcome).kind = "wait"
    /\ calls' = [calls EXCEPT
                   ![i].attempt = callWithRetry(calls[i].attempt, outcome).attempt,
                   ![i].delay = callWithRetry(calls[i].attempt, outcome).delay]
    /\ UNCHANGED << scenario, gameState, choices, isLoading, isError, lastAction,
                    isFactionModalOpen, isLeaderManipulateModalOpen, ui, anim, turnNo,
                    ghost >>

\* the timer of withTimeout runs out before makeTurn answers: the catch branch
\* of handleChoice runs, and the narrative call goes on ("LATE")
TurnTimesOut(i) ==
    /\ scenario = "timeout"
    /\ i \in 1..Len(calls) /\ calls[i].type = "TURN"
    /\ isError' = TRUE
    /\ isLoading' = FALSE
    /\ calls' = [calls EXCEPT ![i].type = "LATE"]
    /\ ghost' = [ghost EXCEPT !.failed = Null]
    /\ UNCHANGED << scenario, gameState, choices, lastAction, isFactionModalOpen,
                    isLeaderManipulateModalOpen, ui, anim, turnNo >>

\* a race that settles with what settles last
withTimeoutLast(first, later) == later

\* Promise.race([promise, timer]): the race settles with what settles first
withTimeout(first, later) == first

\* makeTurn answers after the timer ran out: the race is settled, the
\* continuation of handleChoice ran its catch branch and does not run again
LateAnswer(i, response) ==
    /\ i \in 1..Len(calls) /\ calls[i].type = "LATE"
    /\ calls' = RemoveAt(calls, i)
    /\ IF withTimeout("Timeout", "response") = "response"
       THEN /\ gameState' = UpdateGameStateFromResponse(response, calls[i].prevState,
                                                        ActionContext(calls[i]))
            /\ choices' = FinalChoices(response, calls[i].prevState, ActionContext(calls[i]))
            /\ isLoading' = FALSE
       ELSE UNCHANGED << gameState, choices, isLoading >>
    /\ ghost' = [ghost EXCEPT !.answeredLate = TRUE]
    /\ UNCHANGED << scenario, isError, lastAction, isFactionModalOpen,
                    isLeaderManipulateModalOpen, ui, anim, turnNo >>

\* handleRetry
HandleRetry ==
    /\ isError /\ lastAction # NoAction
    /\ IF gameState = Null THEN TRUE ELSE ErrorTop
    /\ IF lastAction.type = "START"
       THEN StartGameCall(lastAction.params)
       ELSE HandleChoiceFrom(gameState, lastAction.params, ghost.firstAttempt)
    /\ UNCHANGED << scenario, choices, isFactionModalOpen,
                    isLeaderManipulateModalOpen, ui, anim, turnNo >>


(***************************************************************************)
(* App: handleInheritGame and handleRestart('new'), offered by the         *)
(* game-over panel and the restart menu of GameUI                          *)
(***************************************************************************)
\* handleInheritGame up to the await of generateInitialTraits
HandleInheritGame(successor) ==
    /\ scenario = "succession"
    /\ BaseTop /\ gameState.isGameOver
    /\ successor \in gameState.potentialSuccessors
    /\ Len(calls) < MaxInFlight
    /\ gameState' = Null
    /\ isLoading' = TRUE
    /\ isError' = FALSE
    /\ calls' = Append(Older(Disturb(calls)),
                       [ type |-> "TRAITS", successor |-> successor,
                         prevState |-> gameState, latest |-> TRUE ])
    /\ ghost' = [DisturbFirst EXCEPT !.failed = Null]
    /\ UNCHANGED << scenario, choices, lastAction, isFactionModalOpen,
                    isLeaderManipulateModalOpen, ui, anim, turnNo >>

\* from the answer of generateInitialTraits (or its failure: no traits) to
\* the await of startGame, which is told the world of the predecessor
TraitsLand(i, newTraits) ==
    /\ i \in 1..Len(calls) /\ calls[i].type = "TRAITS"
    /\ LET newConfig == [ name |-> calls[i].successor, traits |-> newTraits,
                          attributes |-> HeirAttributes ]
           previousState == [ year |-> calls[i].prevState.year,
                              month |-> calls[i].prevState.month,
                              factions |-> calls[i].prevState.factions,
                              history |-> calls[i].prevState.historySummary,
                              supremeLeader |-> calls[i].prevState.supremeLeader ]
       IN  /\ lastAction' = [type |-> "START", params |-> newConfig]
           /\ calls' = Append(Older(RemoveAt(calls, i)),
                              [ type |-> "INHERIT", params |-> newConfig,
                                previousState |-> previousState,
                                prevState |-> calls[i].prevState, latest |-> TRUE ])
    /\ UNCHANGED << scenario, gameState, choices, isLoading, isError, isFactionModalOpen,
                    isLeaderManipulateModalOpen, ui, anim, turnNo, ghost >>

\* the GameState of the heir, before the merge
InheritedState(call, response) ==
    LET supremeLeaderName == UnknownLeader
        supreme == (call.params.name = supremeLeaderName)
    IN  [ name |-> call.params.name,
          year |-> response.year,
          month |-> response.month,
          stats |-> [ politicalStanding |-> BasePoliticalStanding,
                      health |-> BaseHealth,
                      mental |-> BaseMental,
                      redStars |-> IF cheatMode THEN CheatRedStars ELSE BaseRedStars,
                      powerPoints |-> IF supreme THEN SupremePowerPoints ELSE 0,
                      currentFaction |-> IF response.playerFactionUpdate # NoFactionUpdate
                                         THEN response.playerFactionUpdate.factionName
                                         ELSE BaseFaction,
                      isLeader |-> IF supreme THEN TRUE
                                   ELSE IF response.playerFactionUpdate # NoFactionUpdate
                                   THEN response.playerFactionUpdate.isLeader
                                   ELSE FALSE,
                      attributes |-> call.params.attributes,
                      traits |-> call.params.traits ],
          supremeLeader |-> supremeLeaderName,
          factions |-> IF response.factionsUpdate # NoFactionsUpdate
                       THEN response.factionsUpdate.items
                       ELSE call.prevState.factions,
          historySummary |-> call.prevState.historySummary,
          potentialSuccessors |-> {},
          isGameOver |-> FALSE,
          gameOverReason |-> "",
          turnsSinceLastCritical |-> 0,
          lastPowerPointGrantDate |-> NoDate ]

\* the continuation of handleInheritGame after the response of startGame
InheritLands(i, response) ==
    /\ i \in 1..Len(calls) /\ calls[i].type = "INHERIT"
    /\ LET newState == InheritedState(calls[i], response)
       IN  /\ gameState' = UpdateGameStateFromResponse(response, newState, NoCtx)
           /\ choices' = FinalChoices(response, newState, NoCtx)
    /\ isLoading' = FALSE
    /\ calls' = RemoveAt(calls, i)
    /\ ghost' = [DisturbFirst EXCEPT
                   !.merged = Merged(response, InheritedState(calls[i], response))]
    /\ UNCHANGED << scenario, isError, lastAction, isFactionModalOpen,
                    isLeaderManipulateModalOpen, ui, anim, turnNo >>

\* handleRestart('new'): back to the start screen
HandleRestartNew ==
    /\ scenario = "succession"
    /\ BaseTop
    /\ gameState' = Null
    /\ choices' = {}
    /\ calls' = Disturb(calls)
    /\ ghost' = [DisturbFirst EXCEPT !.restarted = TRUE]
    /\ UNCHANGED << scenario, isLoading, isError, lastAction, isFactionModalOpen,
                    isLeaderManipulateModalOpen, ui, anim, turnNo >>

(***************************************************************************)
(* App: handleConsumeRedStar, and the faction modal                        *)
(***************************************************************************)
\* a fate point that costs nothing
HandleConsumeRedStarFree(live) == live

\* the live state after handleConsumeRedStar
HandleConsumeRedStar(live) ==
    IF live = Null \/ cheatMode \/ live.stats.redStars <= 0
    THEN live
    ELSE [live EXCEPT !.stats.redStars = @ - 1]

\* the faction modal is played in every scenario but "succession" and "roll"
OpenFaction ==
    /\ scenario \notin {"succession", "roll", "fortune", "timeout", "ratelimit",
                      "traits"}
    /\ BaseTop
    /\ isFactionModalOpen' = TRUE
    /\ UNCHANGED << scenario, gameState, choices, isLoading, isError, lastAction,
                    isLeaderManipulateModalOpen, calls, ui, anim, turnNo, ghost >>

CloseFaction ==
    /\ FactionModalTop
    /\ isFactionModalOpen' = FALSE
    /\ UNCHANGED << scenario, gameState, choices, isLoading, isError, lastAction,
                    isLeaderManipulateModalOpen, calls, ui, anim, turnNo, ghost >>

ExchangeCost(gs) == IF isSupremeLeader(gs) THEN ExchangeCostSupreme ELSE ExchangeCostOther

\* the button is enabled from ExchangeCostOther stars on (the modal does not
\* take the player's faction for the supreme leader's); in cheat mode the
\* exchange is free
HandleExchangeRedStars ==
    /\ FactionModalTop
    /\ gameState.stats.redStars >= ExchangeCostOther
    /\ IF cheatMode
       THEN /\ gameState.stats.powerPoints < MaxCheatPower
            /\ gameState' = [gameState EXCEPT
                               !.stats.redStars = CheatRedStars,
                               !.stats.powerPoints = @ + 1]
       ELSE /\ gameState.stats.redStars >= ExchangeCost(gameState)
            /\ gameState' = [gameState EXCEPT
                               !.stats.redStars = @ - ExchangeCost(gameState),
                               !.stats.powerPoints = @ + 1]
    /\ calls' = Disturb(calls)
    /\ ghost' = DisturbFirst
    /\ UNCHANGED << scenario, choices, isLoading, isError, lastAction,
                    isFactionModalOpen, isLeaderManipulateModalOpen, ui, anim, turnNo >>

\* (not played in the "cheat" scenario, where the free exchange is)
HandleManipulateScales ==
    /\ scenario \notin {"cheat", "fortune"}
    /\ FactionModalTop
    /\ gameState.stats.powerPoints >= 1
    /\ isFactionModalOpen' = FALSE
    /\ isLeaderManipulateModalOpen' = TRUE
    /\ UNCHANGED << scenario, gameState, choices, isLoading, isError, lastAction,
                    calls, ui, anim, turnNo, ghost >>

CancelLeaderManipulate ==
    /\ LeaderModalTop
    /\ isLeaderManipulateModalOpen' = FALSE
    /\ UNCHANGED << scenario, gameState, choices, isLoading, isError, lastAction,
                    isFactionModalOpen, calls, ui, anim, turnNo, ghost >>

HandleLeaderManipulateSubmit ==
    /\ LeaderModalTop
    /\ turnNo < MaxTurns
    /\ isLeaderManipulateModalOpen' = FALSE
    /\ HandleChoice(gameState,
          Params([id |-> ManipulateActionId, text |-> turnNo + 1], "SUCCESS", FALSE, 0))
    /\ turnNo' = turnNo + 1
    /\ UNCHANGED << scenario, choices, isFactionModalOpen, ui, anim >>

(***************************************************************************)
(* GameUI: the roll interaction                                            *)
(***************************************************************************)
\* what runRollAnimation's closure holds: the arguments, and gameState,
\* onChoice (hence App's gameState) and interactionStarsConsumed of the
\* render that called it
Animation(choice, threshold, critThreshold) ==
    [ choice |-> choice, threshold |-> threshold, critThreshold |-> critThreshold,
      gameState |-> gameState,
      interactionStarsConsumed |-> ui.interactionStarsConsumed ]

ChoicesShown == gameState # Null /\ ~gameState.isGameOver /\ ~isLoading

\* startRoll(choice)
StartRoll(choice) ==
    LET st == getRollStats(choice.difficulty, choice.attrVal)
    IN  /\ ui' = [ui EXCEPT
                    !.calculatedThreshold = st.effectiveThreshold,
                    !.activeCritThreshold = st.critThreshold,
                    !.rollingChoice = choice,
                    !.pendingFailure = NoPending,
                    !.pendingCritical = NoChoice,
                    !.showRerollModal = FALSE,
                    !.showCriticalCustomModal = FALSE,
                    !.isLeaderManipulating = FALSE,
                    !.isPityAction = FALSE,
                    !.interactionStarsConsumed = 0]
        /\ anim' = Animation(choice, st.effectiveThreshold, st.critThreshold)

\* handleChoiceClick on a standard choice
ClickNormalChoice ==
    /\ BaseTop /\ ChoicesShown
    /\ ui.rollingChoice = NoChoice
    /\ turnNo < MaxTurns
    /\ \E input \in RollInputsOf :
          StartRoll([id |-> NormalChoiceId, text |-> turnNo + 1,
                     difficulty |-> input.difficulty, attrVal |-> input.attrVal])
    /\ turnNo' = turnNo + 1
    /\ ghost' = [ghost EXCEPT !.starsSpent = 0]
    /\ UNCHANGED << scenario, gameState, choices, isLoading, isError, lastAction,
                    isFactionModalOpen, isLeaderManipulateModalOpen, calls >>

\* handleChoiceClick on the special choice, shown only with power points > 0
ClickSpecialChoice ==
    /\ BaseTop /\ ChoicesShown
    /\ ui.rollingChoice = NoChoice
    /\ SpecialChoiceId \in choices /\ gameState.stats.powerPoints > 0
    /\ turnNo < MaxTurns
    /\ LET choice == [id |-> SpecialChoiceId, text |-> turnNo + 1,
                      difficulty |-> ChoiceDifficulty, attrVal |-> EffectiveAttribute]
       IN  IF isSupremeLeader(gameState)
           THEN /\ ui' = [ui EXCEPT
                            !.rollingChoice = choice,
                            !.isLeaderManipulating = TRUE,
                            !.isPityAction = FALSE,
                            !.showCriticalCustomModal = TRUE]
                /\ anim' = anim
           ELSE StartRoll(choice)
    /\ turnNo' = turnNo + 1
    /\ ghost' = [ghost EXCEPT !.starsSpent = 0]
    /\ UNCHANGED << scenario, gameState, choices, isLoading, isError, lastAction,
                    isFactionModalOpen, isLeaderManipulateModalOpen, calls >>

\* handleChoiceClick on the injected pity choice
ClickPityChoice ==
    /\ BaseTop /\ ChoicesShown
    /\ ui.rollingChoice = NoChoice
    /\ PityChoiceId \in choices
    /\ turnNo < MaxTurns
    /\ ui' = [ui EXCEPT
                 !.rollingChoice = [id |-> PityChoiceId, text |-> turnNo + 1,
                                    difficulty |-> PityDifficulty,
                                    attrVal |-> EffectiveAttribute],
                 !.isPityAction = TRUE,
                 !.isLeaderManipulating = FALSE,
                 !.showCriticalCustomModal = TRUE]
    /\ turnNo' = turnNo + 1
    /\ ghost' = [ghost EXCEPT !.starsSpent = 0]
    /\ UNCHANGED << scenario, gameState, choices, isLoading, isError, lastAction,
                    isFactionModalOpen, isLeaderManipulateModalOpen, calls, anim >>

\* handleChoiceClick on the testament choice
ClickTestamentChoice ==
    /\ BaseTop /\ ChoicesShown
    /\ ui.rollingChoice = NoChoice
    /\ TestamentChoiceId \in choices
    /\ turnNo < MaxTurns
    /\ ui' = [ui EXCEPT
                 !.isWritingTestament = TRUE,
                 !.showTestamentCustomInput = FALSE,
                 !.interactionStarsConsumed = 0]
    /\ ghost' = [ghost EXCEPT !.starsSpent = 0]
    /\ UNCHANGED << scenario, gameState, choices, isLoading, isError, lastAction,
                    isFactionModalOpen, isLeaderManipulateModalOpen, calls, anim, turnNo >>

\* the testament modal: three fate points buy the free text for the heir
BuyCustomHeir ==
    /\ TestamentModalTop /\ ~ui.showTestamentCustomInput
    /\ gameState.stats.redStars >= TestamentCost
    /\ gameState' = HandleConsumeRedStar(HandleConsumeRedStar(HandleConsumeRedStar(gameState)))
    /\ ui' = [ui EXCEPT
                 !.interactionStarsConsumed = @ + TestamentCost,
                 !.showTestamentCustomInput = TRUE]
    /\ calls' = Disturb(calls)
    /\ ghost' = [DisturbFirst EXCEPT !.starsSpent = @ + TestamentCost]
    /\ UNCHANGED << scenario, choices, isLoading, isError, lastAction,
                    isFactionModalOpen, isLeaderManipulateModalOpen, anim, turnNo >>

\* the testament modal: back from the free text
LeaveCustomHeir ==
    /\ TestamentModalTop /\ ui.showTestamentCustomInput
    /\ ui' = [ui EXCEPT
                 !.showTestamentCustomInput = FALSE,
                 !.interactionStarsConsumed = 0]
    /\ UNCHANGED << scenario, gameState, choices, isLoading, isError, lastAction,
                    isFactionModalOpen, isLeaderManipulateModalOpen, calls, anim,
                    turnNo, ghost >>

\* the testament modal: later
CancelTestament ==
    /\ TestamentModalTop /\ ~ui.showTestamentCustomInput
    /\ ui' = [ui EXCEPT !.isWritingTestament = FALSE]
    /\ UNCHANGED << scenario, gameState, choices, isLoading, isError, lastAction,
                    isFactionModalOpen, isLeaderManipulateModalOpen, calls, anim,
                    turnNo, ghost >>

\* submitTestament with a suggested heir or a typed one: startRoll with the
\* testament text, which keeps interactionStarsConsumed
SubmitTestament ==
    /\ TestamentModalTop
    /\ turnNo < MaxTurns
    /\ LET choice == [id |-> TestamentChoiceId, text |-> turnNo + 1,
                      difficulty |-> ChoiceDifficulty, attrVal |-> EffectiveAttribute]
           st == getRollStats(choice.difficulty, choice.attrVal)
       IN  /\ ui' = [ui EXCEPT
                        !.isWritingTestament = FALSE,
                        !.showTestamentCustomInput = FALSE,
                        !.calculatedThreshold = st.effectiveThreshold,
                        !.activeCritThreshold = st.critThreshold,
                        !.rollingChoice = choice,
                        !.pendingFailure = NoPending,
                        !.pendingCritical = NoChoice,
                        !.showRerollModal = FALSE,
                        !.showCriticalCustomModal = FALSE,
                        !.isLeaderManipulating = FALSE,
                        !.isPityAction = FALSE]
           /\ anim' = Animation(choice, st.effectiveThreshold, st.critThreshold)
    /\ turnNo' = turnNo + 1
    /\ UNCHANGED << scenario, gameState, choices, isLoading, isError, lastAction,
                    isFactionModalOpen, isLeaderManipulateModalOpen, calls, ghost >>

\* the end of runRollAnimation: the final draw, and the timer it sets
RollResolves(roll) ==
    /\ anim # Null
    /\ LET result == RollOutcome(roll, anim.threshold, anim.critThreshold)
           failed == result \in {"FAILURE", "CRITICAL_FAILURE"}
       IN  IF result = "CRITICAL_SUCCESS"
           THEN /\ ui' = [ui EXCEPT !.pendingCritical = anim.choice,
                                    !.showCriticalCustomModal = TRUE]
                /\ ghost' = [ghost EXCEPT !.drawn = [threshold |-> anim.threshold,
                                                    critThreshold |-> anim.critThreshold]]
                /\ UNCHANGED << gameState, isLoading, isError, lastAction, calls >>
           ELSE IF failed /\ anim.gameState.stats.redStars > 0
           THEN /\ ui' = [ui EXCEPT !.pendingFailure = [choice |-> anim.choice, result |-> result],
                                    !.showRerollModal = TRUE]
                /\ UNCHANGED << gameState, isLoading, isError, lastAction, calls, ghost >>
           ELSE /\ HandleChoice(anim.gameState,
                      Params(anim.choice, result, EarnStar(roll, result),
                             anim.interactionStarsConsumed))
                /\ ui' = [ui EXCEPT !.rollingChoice = NoChoice]
    /\ anim' = Null
    /\ UNCHANGED << scenario, choices, isFactionModalOpen,
                    isLeaderManipulateModalOpen, turnNo >>

\* the reroll drawn against the threshold as it was
NewThresholdKept(calculatedThreshold) == calculatedThreshold

\* const newThreshold = Math.max(5, calculatedThreshold - 5)
NewThreshold(calculatedThreshold) ==
    Max(MinThreshold, calculatedThreshold - RerollStep)

\* confirmReroll
ConfirmReroll ==
    /\ GameUIModalTop /\ ui.showRerollModal
    /\ ui.pendingFailure # NoPending
    /\ gameState.stats.redStars > 0
    /\ cheatMode => ui.interactionStarsConsumed < MaxCheatSpent
    /\ LET newThreshold == NewThreshold(ui.calculatedThreshold)
       IN  /\ ui' = [ui EXCEPT
                       !.calculatedThreshold = newThreshold,
                       !.interactionStarsConsumed = @ + 1,
                       !.showRerollModal = FALSE]
           /\ anim' = Animation(ui.pendingFailure.choice, newThreshold, ui.activeCritThreshold)
    /\ gameState' = HandleConsumeRedStar(gameState)
    /\ calls' = Disturb(calls)
    /\ ghost' = [DisturbFirst EXCEPT !.starsSpent = @ + 1]
    /\ UNCHANGED << scenario, choices, isLoading, isError, lastAction,
                    isFactionModalOpen, isLeaderManipulateModalOpen, turnNo >>

\* cancelReroll
CancelReroll ==
    /\ GameUIModalTop /\ ui.showRerollModal
    /\ ui.pendingFailure # NoPending
    /\ HandleChoice(gameState,
          Params(ui.pendingFailure.choice, ui.pendingFailure.result, FALSE,
                 ui.interactionStarsConsumed))
    /\ ui' = [ui EXCEPT !.showRerollModal = FALSE,
                        !.rollingChoice = NoChoice,
                        !.pendingFailure = NoPending]
    /\ UNCHANGED << scenario, choices, isFactionModalOpen,
                    isLeaderManipulateModalOpen, anim, turnNo >>

\* handleProceedCritical
HandleProceedCritical ==
    /\ GameUIModalTop /\ ui.showCriticalCustomModal
    /\ IF ui.isLeaderManipulating /\ ui.rollingChoice # NoChoice
       THEN /\ HandleChoice(gameState,
                  Params(ui.rollingChoice, "SUCCESS", FALSE, ui.interactionStarsConsumed))
            /\ ui' = [ui EXCEPT !.rollingChoice = NoChoice,
                                !.isLeaderManipulating = FALSE,
                                !.isPityAction = FALSE,
                                !.showCriticalCustomModal = FALSE]
       ELSE /\ ~ui.isPityAction
            /\ ui.pendingCritical # NoChoice
            /\ HandleChoice(gameState,
                  Params(ui.pendingCritical, "CRITICAL_SUCCESS", TRUE,
                         ui.interactionStarsConsumed))
            /\ ui' = [ui EXCEPT !.showCriticalCustomModal = FALSE,
                                !.rollingChoice = NoChoice,
                                !.pendingCritical = NoChoice]
    /\ UNCHANGED << scenario, choices, isFactionModalOpen,
                    isLeaderManipulateModalOpen, anim, turnNo >>

CustomChoiceId == "custom"

\* handleStartCustomAction, then submitCustomAction with a non-empty text
SubmitCustomAction ==
    /\ GameUIModalTop /\ ui.showCriticalCustomModal
    /\ IF ui.isLeaderManipulating /\ ui.rollingChoice # NoChoice
       THEN /\ HandleChoice(gameState,
                  Params(ui.rollingChoice, "SUCCESS", FALSE, ui.interactionStarsConsumed))
            /\ ui' = [ui EXCEPT !.showCriticalCustomModal = FALSE,
                                !.isLeaderManipulating = FALSE,
                                !.rollingChoice = NoChoice]
            /\ anim' = anim
       ELSE IF ui.isPityAction /\ ui.rollingChoice # NoChoice
       THEN /\ HandleChoice(gameState,
                  Params(ui.rollingChoice, "SUCCESS", FALSE, ui.interactionStarsConsumed))
            /\ ui' = [ui EXCEPT !.showCriticalCustomModal = FALSE,
                                !.isPityAction = FALSE,
                                !.rollingChoice = NoChoice]
            /\ anim' = anim
       ELSE /\ ~ui.isLeaderManipulating
            /\ gameState.stats.redStars >= 1
            /\ cheatMode => ui.interactionStarsConsumed < MaxCheatSpent
            /\ ui.pendingCritical # NoChoice
            /\ gameState' = HandleConsumeRedStar(gameState)
            /\ calls' = Disturb(calls)
            /\ ghost' = [DisturbFirst EXCEPT !.starsSpent = @ + 1, !.drawn = Null]
            /\ ui' = [ui EXCEPT !.interactionStarsConsumed = @ + 1,
                                !.showCriticalCustomModal = FALSE]
            /\ anim' = Animation([ui.pendingCritical EXCEPT !.id = CustomChoiceId],
                                 ui.calculatedThreshold, ui.activeCritThreshold)
            /\ UNCHANGED << isLoading, isError, lastAction >>
    /\ UNCHANGED << scenario, choices, isFactionModalOpen,
                    isLeaderManipulateModalOpen, turnNo >>

\* handleStartCustomAction, then the cancel button of the text input
\* (it ends the interaction only for the leader's special action and for
\* the pity action)
CancelCustomAction ==
    /\ GameUIModalTop /\ ui.showCriticalCustomModal
    /\ ui.isLeaderManipulating \/ ui.isPityAction
    /\ ui' = [ui EXCEPT !.showCriticalCustomModal = FALSE,
                        !.rollingChoice = NoChoice,
                        !.isPityAction = FALSE,
                        !.isLeaderManipulating = FALSE]
    /\ UNCHANGED << scenario, gameState, choices, isLoading, isError, lastAction,
                    isFactionModalOpen, isLeaderManipulateModalOpen, calls, anim, turnNo, ghost >>

(***************************************************************************)
(* Specification                                                           *)
(***************************************************************************)
Next ==
    \/ \E name \in NamesOf : HandleStartGame(name)
    \/ \E i \in 1..Len(calls) : \E response \in StartResponses : StartLands(i, response)
    \/ HandleLoadGame
    \/ \E i \in 1..Len(calls) : \E repairedState \in SavedGames : LoadLands(i, repairedState)
    \/ \E i \in 1..Len(calls) :
          /\ calls[i].type = "TURN"
          /\ \E response \in TurnResponses(calls[i].prevState) : TurnLands(i, response)
    \/ \E i \in 1..Len(calls) : CallFails(i)
    \/ \E i \in 1..Len(calls) : TurnTimesOut(i)
    \/ \E i \in 1..Len(calls) : \E outcome \in Outcomes : AttemptRateLimited(i, outcome)
    \/ \E i \in 1..Len(calls) :
          /\ calls[i].type = "LATE"
          /\ \E response \in TurnResponses(calls[i].prevState) : LateAnswer(i, response)
    \/ \E successor \in {HeirName} : HandleInheritGame(successor)
    \/ \E i \in 1..Len(calls) : \E newTraits \in HeirTraits : TraitsLand(i, newTraits)
    \/ \E i \in 1..Len(calls) :
          /\ calls[i].type = "INHERIT"
          /\ \E response \in InheritResponses(calls[i].previousState) : InheritLands(i, response)
    \/ HandleRestartNew
    \/ HandleRetry
    \/ OpenFaction
    \/ CloseFaction
    \/ HandleExchangeRedStars
    \/ HandleManipulateScales
    \/ CancelLeaderManipulate
    \/ HandleLeaderManipulateSubmit
    \/ ClickNormalChoice
    \/ ClickSpecialChoice
    \/ ClickPityChoice
    \/ ClickTestamentChoice
    \/ BuyCustomHeir
    \/ LeaveCustomHeir
    \/ CancelTestament
    \/ SubmitTestament
    \/ \E roll \in DrawsOf : RollResolves(roll)
    \/ ConfirmReroll
    \/ CancelReroll
    \/ HandleProceedCritical
    \/ SubmitCustomAction
    \/ CancelCustomAction

Spec == Init /\ [][Next]_vars

(***************************************************************************)
(* Properties                                                              *)
(***************************************************************************)

\* C1: if the narrative call of a submitted turn fails, the GameState after
\* the failure equals the GameState before the action was submitted (for a
\* turn whose wait nothing else interfered with).
C1_FailedTurnRestoresState ==
    [][\A i \in 1..Len(calls) :
          (/\ calls[i].type = "TURN"
           /\ calls[i].stateAtSubmit # Null
           /\ CallFails(i))
          => gameState' = calls[i].stateAtSubmit]_vars

\* C2: a turn that failed and is resubmitted through handleRetry merges to
\* exactly the GameState the first attempt would have merged to with the same
\* response.
C2_RetryIdempotent ==
    [][\A i \in 1..Len(calls) :
          (calls[i].type = "TURN" /\ calls[i].retryOf # Null) =>
             \A response \in TurnResponses(calls[i].prevState) :
                TurnLands(i, response) =>
                   gameState' = UpdateGameStateFromResponse(
                                   response, calls[i].retryOf,
                                   ActionContext([calls[i] EXCEPT !.prevState = calls[i].retryOf]))]_vars

\* C3: at most one turn is in flight: a narrative call is begun only when none
\* is pending, and an action is begun only when no call is pending and no roll
\* interaction is under way.
C3_OneTurnInFlight ==
    [][ /\ (Len(calls') > Len(calls) => Len(calls) = 0)
        /\ (turnNo' > turnNo => (Len(calls) = 0 /\ ui.rollingChoice = NoChoice)) ]_vars

\* C4: a roll interaction ends with exactly one report to handleChoice, and
\* the consumed-fate-point count of that report is the number of fate points
\* spent during the interaction.
C4_ReportCarriesStarsSpent ==
    [][ (/\ ui.rollingChoice # NoChoice
         /\ ui'.rollingChoice = NoChoice
         /\ ~ui.isLeaderManipulating)
        => /\ Len(calls') = Len(calls) + 1
           /\ calls'[Len(calls')].params.consumedRedStars = ghost.starsSpent ]_vars

\* C5: a leader whose last grant is less than 3 months back (counted to the
\* date of the turn and to the date of the proposal alike, the proposal not
\* dated before the turn) ends the turn with no more power points than
\* before, whatever gain is proposed.
C5_GainOnlyAfterCooldown ==
    [][\A i \in 1..Len(calls) :
          calls[i].type = "TURN" =>
             \A response \in TurnResponses(calls[i].prevState) :
                LET prevState == calls[i].prevState
                    grant == prevState.lastPowerPointGrantDate
                IN  (/\ TurnLands(i, response)
                     /\ prevState.stats.isLeader
                     /\ grant # NoDate
                     /\ MonthIndex(response) >= MonthIndex(prevState)
                     /\ MonthIndex(prevState) - MonthIndex(grant) < COOLDOWN_MONTHS
                     /\ MonthIndex(response) - MonthIndex(grant) < COOLDOWN_MONTHS)
                    => gameState'.stats.powerPoints <= prevState.stats.powerPoints]_vars

\* C6: for a player who is not a faction leader when the turn is merged, the
\* power points after the merge do not exceed the power points before the turn.
C6_NonLeaderGainsNothing ==
    [][\A i \in 1..Len(calls) :
          calls[i].type = "TURN" =>
             \A response \in TurnResponses(calls[i].prevState) :
                (TurnLands(i, response) /\ ~calls[i].prevState.stats.isLeader)
                => gameState'.stats.powerPoints <= calls[i].prevState.stats.powerPoints]_vars

\* C7: in any single merge the power-point increase attributable to the
\* proposal - the power points after the merge, less what the same merge
\* gives for a proposal of no power-point change - is at most 1, whatever
\* delta the proposal carries.
C7_GainAtMostOne ==
    [][\A i \in 1..Len(calls) :
          calls[i].type = "TURN" =>
             \A response \in TurnResponses(calls[i].prevState) :
                LET noChange == [response EXCEPT !.statsDelta.powerPoints = 0]
                    without == UpdateGameStateFromResponse(
                                  noChange, calls[i].prevState, ActionContext(calls[i]))
                IN  (response.statsDelta.powerPoints # 0 /\ TurnLands(i, response))
                    => gameState'.stats.powerPoints
                          <= without.stats.powerPoints + 1]_vars

\* a merge of a proposal of +3 has just raised the power points by exactly 1
C7_ProposalOfThreeMerged ==
    /\ gameState # Null
    /\ ghost.merged # Null
    /\ ghost.merged.powerDelta = 3
    /\ gameState.stats.powerPoints = ghost.merged.prior + 1

\* C8: the power-point counter is never negative in a reachable state.
C8_PowerPointsNeverNegative ==
    gameState # Null => gameState.stats.powerPoints >= 0

\* C9: a turn merge never moves the calendar (year*12 + month) back.
C9_CalendarNeverBack ==
    [][\A i \in 1..Len(calls) :
          calls[i].type = "TURN" =>
             \A response \in TurnResponses(calls[i].prevState) :
                TurnLands(i, response)
                => MonthIndex(gameState') >= MonthIndex(gameState)]_vars

\* deltas probed for every prior vital value
ProbedDeltas == {-500, -101, -100, -1, 0, 1, 100, 101, 500}

ClampVitalInRange ==
    \A prior \in 0..100 : \A delta \in ProbedDeltas :
        ClampVital(prior, delta) \in 0..100

\* C10: for every prior vital in [0,100] and every delta the merged vital is in
\* [0,100], and all three vitals are in [0,100] in every reachable state.
C10_VitalsInRange ==
    /\ ClampVitalInRange
    /\ gameState # Null =>
          /\ gameState.stats.politicalStanding \in 0..100
          /\ gameState.stats.health \in 0..100
          /\ gameState.stats.mental \in 0..100

\* a merge of +500 / -500 left political standing at the ceiling and mental
\* resilience at the floor
C10_ClampedAtBothEnds ==
    /\ gameState # Null
    /\ gameState.stats.politicalStanding = 100
    /\ gameState.stats.mental = 0
    /\ gameState.historySummary # << >>

\* the canned reason of the highest-priority vital at zero
CannedReason(stats) ==
    IF stats.health = 0 THEN HealthDeathReason
    ELSE IF stats.politicalStanding = 0 THEN PoliticalPurgeReason
    ELSE MentalCollapseReason

\* C11: after a turn merge that leaves health, political standing or mental
\* resilience at 0 the game is over, and the reason is the proposal's own when
\* it gave one, else the canned reason in the order health, political
\* standing, mental resilience.
C11_ZeroVitalEndsGame ==
    [][\A i \in 1..Len(calls) :
          calls[i].type = "TURN" =>
             \A response \in TurnResponses(calls[i].prevState) :
                (/\ gameState' # Null
                 /\ \/ gameState'.stats.health = 0
                    \/ gameState'.stats.politicalStanding = 0
                    \/ gameState'.stats.mental = 0
                 /\ TurnLands(i, response))
                => /\ gameState'.isGameOver
                   /\ gameState'.gameOverReason =
                         IF response.gameOverReason # ""
                         THEN response.gameOverReason
                         ELSE CannedReason(gameState'.stats)]_vars

\* health and political standing are both 0 and the health-death reason is
\* reported
C11_HealthBeforePolitics ==
    /\ gameState # Null
    /\ gameState.stats.health = 0
    /\ gameState.stats.politicalStanding = 0
    /\ gameState.isGameOver
    /\ gameState.gameOverReason = HealthDeathReason

\* h followed by exactly one entry
IsOneLonger(h, longer) ==
    /\ Len(longer) = Len(h) + 1
    /\ SubSeq(longer, 1, Len(h)) = h

\* C12: a merged turn leaves the history as it was, followed by exactly one
\* new entry; a failed turn leaves the history as it was.
C12_HistoryAppendOnly ==
    [][\A i \in 1..Len(calls) :
          calls[i].type = "TURN" =>
             /\ \A response \in TurnResponses(calls[i].prevState) :
                   (TurnLands(i, response) /\ gameState # Null)
                   => IsOneLonger(gameState.historySummary, gameState'.historySummary)
             /\ (CallFails(i) /\ gameState # Null)
                   => gameState'.historySummary = gameState.historySummary]_vars

\* C13: the roster is replaced as a whole or not at all; in particular a merge
\* whose proposal carries no list (absent, or not a list) leaves the roster
\* as it was just before the merge.
C13_RosterKeptWithoutList ==
    [][\A i \in 1..Len(calls) :
          calls[i].type = "TURN" =>
             \A response \in TurnResponses(calls[i].prevState) :
                (/\ TurnLands(i, response) /\ gameState # Null
                 /\ response.factionsUpdate = NoFactionsUpdate)
                => gameState'.factions = gameState.factions]_vars

RECURSIVE SumOfShares(_)
SumOfShares(roster) ==
    IF roster = << >> THEN 0
    ELSE Head(roster).percentage + SumOfShares(Tail(roster))

\* C14: in every reachable state with a non-empty roster each share is in
\* [0,100] and the shares sum to 100.
C14_SharesSumToHundred ==
    (gameState # Null /\ gameState.factions # << >>) =>
        /\ \A k \in 1..Len(gameState.factions) :
              gameState.factions[k].percentage \in 0..100
        /\ SumOfShares(gameState.factions) = 100

\* a CRITICAL_SUCCESS was drawn in the interaction that led to this call:
\* either it is reported, or the player customised it (only then does the
\* reported choice carry the custom id)
CriticalRolled(call) ==
    call.params.rollResult = "CRITICAL_SUCCESS" \/ call.params.choiceId = CustomChoiceId

\* C15: a completed turn resets turnsSinceLastCritical to 0 when it used the
\* pity action or a CRITICAL_SUCCESS was rolled in it, and otherwise adds one
\* to the counter the turn started from.
C15_DroughtCounter ==
    [][\A i \in 1..Len(calls) :
          calls[i].type = "TURN" =>
             \A response \in TurnResponses(calls[i].prevState) :
                TurnLands(i, response)
                => gameState'.turnsSinceLastCritical =
                      IF calls[i].params.choiceId = PityChoiceId \/ CriticalRolled(calls[i])
                      THEN 0
                      ELSE calls[i].prevState.turnsSinceLastCritical + 1]_vars

\* C16 as stated, "for one turn only": a turn that completes while the pity
\* option is on offer leaves choices without it.
C16_PityForOneTurnOnly ==
    [][\A i \in 1..Len(calls) :
          calls[i].type = "TURN" =>
             \A response \in TurnResponses(calls[i].prevState) :
                (TurnLands(i, response) /\ PityChoiceId \in choices)
                => PityChoiceId \notin choices']_vars

\* C16: a turn played in a game that is not over and that leaves the counter
\* at 10 or more offers the pity option among the next choices (at every
\* such turn, not only the first), and the pity option is never among the
\* choices of a game whose counter is below 10.
C16_PityOfferedFromTen ==
    [][/\ (gameState' # Null /\ PityChoiceId \in choices')
          => gameState'.turnsSinceLastCritical >= PityThreshold
       /\ \A i \in 1..Len(calls) :
             calls[i].type = "TURN" =>
                \A response \in TurnResponses(calls[i].prevState) :
                   (/\ gameState' # Null
                    /\ gameState'.turnsSinceLastCritical >= PityThreshold
                    /\ ~calls[i].prevState.isGameOver
                    /\ TurnLands(i, response))
                   => PityChoiceId \in choices']_vars

\* the counter has just reached 10 in a running game and the option is offered
C16_PityOffered ==
    /\ gameState # Null /\ ~gameState.isGameOver
    /\ gameState.turnsSinceLastCritical = PityThreshold
    /\ PityChoiceId \in choices

\* difficulties and attribute values probed for getRollStats, and the
\* thresholds and critical floors probed for the outcome of a draw
ProbedDifficulties == -20..120
ProbedAttributes == -5..60
ProbedThresholds == 5..95
ProbedCritThresholds == 20..95

Clamp(x, lo, hi) == IF x < lo THEN lo ELSE IF x > hi THEN hi ELSE x

\* getRollStats over the probed pairs: the threshold is the raw value
\* brought into [5,95], the critical floor is 95 less the overflow and at
\* least 20
GetRollStatsInRange ==
    \A d \in ProbedDifficulties : \A a \in ProbedAttributes :
        LET st == getRollStats(d, a)
            raw == d - 2 * a
            overflow == IF raw < 5 THEN 5 - raw ELSE 0
        IN  /\ st.effectiveThreshold = Clamp(raw, 5, 95)
            /\ st.effectiveThreshold \in 5..95
            /\ st.critThreshold = (IF 95 - overflow > 20 THEN 95 - overflow ELSE 20)
            /\ st.critThreshold \in 20..95

\* C17: getRollStats yields threshold = clamp(difficulty - 2*attribute, 5, 95)
\* and critical floor = max(20, 95 - overflow), and the threshold and critical
\* floor of every draw, first or after any number of rerolls, are in [5,95]
\* and [20,95].
C17_ThresholdsInRange ==
    /\ GetRollStatsInRange
    /\ anim # Null => /\ anim.threshold \in 5..95
                      /\ anim.critThreshold \in 20..95

\* a second reroll of a choice of difficulty 8 is drawn against the floor
C17_RerollAtFloor ==
    /\ anim # Null
    /\ anim.choice.difficulty = 8
    /\ anim.interactionStarsConsumed = 2
    /\ anim.threshold = 5

\* the outcome of every draw over the probed thresholds, by the priority
OutcomeByPriority ==
    \A roll \in 1..100 : \A t \in ProbedThresholds : \A c \in ProbedCritThresholds :
        LET result == RollOutcome(roll, t, c)
        IN  /\ result \in {"CRITICAL_FAILURE", "CRITICAL_SUCCESS", "SUCCESS", "FAILURE"}
            /\ (result = "CRITICAL_FAILURE") <=> (roll <= 5)
            /\ (result = "CRITICAL_SUCCESS") <=> (roll > 5 /\ roll >= c)
            /\ (result = "SUCCESS") <=> (roll > 5 /\ roll < c /\ roll > t)
            /\ (result = "FAILURE") <=> (roll > 5 /\ roll < c /\ roll <= t)

\* C18: every draw in 1..100 maps to exactly one outcome: a draw of 5 or less
\* is CRITICAL_FAILURE, otherwise a draw at or above the critical floor is
\* CRITICAL_SUCCESS, otherwise a draw above the threshold is SUCCESS,
\* otherwise FAILURE; a failure held for the reroll offer is one of the two
\* failing outcomes.
C18_OutcomeByPriority ==
    /\ OutcomeByPriority
    /\ ui.pendingFailure # NoPending
          => ui.pendingFailure.result \in {"FAILURE", "CRITICAL_FAILURE"}

\* a draw of 3 against threshold 5 and a critical floor lowered to 20 was a
\* critical failure
C18_CriticalFailureAtLoweredFloor ==
    /\ ui.pendingFailure # NoPending
    /\ ui.pendingFailure.result = "CRITICAL_FAILURE"
    /\ ui.calculatedThreshold = 5
    /\ ui.activeCritThreshold = 20

\* the two ways out of the reroll offer: a new draw starts, or none does
RerollAccepted == ui.showRerollModal /\ ~ui'.showRerollModal /\ anim' # Null
RerollDeclined == ui.showRerollModal /\ ~ui'.showRerollModal /\ anim' = Null

\* the call started by the step, if it started one
Reported == calls'[Len(calls')].params

\* C19 as stated: an accepted reroll is drawn against the current threshold
\* less 5.
C19_RerollLowersByFive ==
    [][RerollAccepted => anim'.threshold = ui.calculatedThreshold - 5]_vars

\* C19: accepting the reroll spends exactly one fate point (none in cheat
\* mode) and re-draws the same choice against the current threshold less 5,
\* though never below 5, with the critical floor unchanged; declining ends
\* the interaction and reports the failed draw's outcome for the failed choice.
C19_RerollStep ==
    [][/\ RerollAccepted =>
             /\ gameState'.stats.redStars =
                   (IF cheatMode THEN gameState.stats.redStars
                    ELSE gameState.stats.redStars - 1)
             /\ anim'.choice = ui.pendingFailure.choice
             /\ anim'.threshold =
                   (IF ui.calculatedThreshold - 5 < 5 THEN 5 ELSE ui.calculatedThreshold - 5)
             /\ anim'.critThreshold = ui.activeCritThreshold
             /\ ui'.activeCritThreshold = ui.activeCritThreshold
       /\ RerollDeclined =>
             /\ Len(calls') = Len(calls) + 1
             /\ Reported.rollResult = ui.pendingFailure.result
             /\ Reported.choiceId = ui.pendingFailure.choice.id
             /\ ui'.rollingChoice = NoChoice
             /\ gameState'.stats.redStars = gameState.stats.redStars]_vars

\* the reroll of a draw failed against 50 with 2 fate points: it is drawn
\* against 45 with the critical floor still 95, and 1 fate point is left
C19_FiftyBecomesFortyFive ==
    /\ anim # Null
    /\ anim.threshold = 45 /\ anim.critThreshold = 95
    /\ ui.interactionStarsConsumed = 1
    /\ gameState # Null /\ gameState.stats.redStars = 1

\* C20: the reroll offer opens after a failed draw only if the character
\* then holds at least one fate point.
C20_OfferOnlyWithFatePoint ==
    [][(~ui.showRerollModal /\ ui'.showRerollModal)
          => gameState.stats.redStars >= 1]_vars

\* C21: with cheat mode off the fate points of a game are within [0,5] in
\* every state; with cheat mode on they are 99 after every turn merge.
C21_FatePointsInRange ==
    [][/\ (gameState' # Null /\ ~cheatMode) => gameState'.stats.redStars \in 0..5
       /\ cheatMode =>
             \A i \in 1..Len(calls) :
                calls[i].type = "TURN" =>
                   \A response \in TurnResponses(calls[i].prevState) :
                      TurnLands(i, response) => gameState'.stats.redStars = 99]_vars

\* a turn that earned a fate point was merged into a game already holding 5
C21_EarnedAtCap ==
    /\ gameState # Null /\ ~cheatMode
    /\ gameState.stats.redStars = 5
    /\ gameState.historySummary # << >>
    /\ gameState.historySummary[Len(gameState.historySummary)].deltas.redStars = 1
    /\ Len(gameState.historySummary) = 1
    /\ scenario = "testament"

\* proposed traits probed for the rules of sanitizeTraits: every rarity and one
\* unknown tag, with modifiers for politics and charisma that are absent,
\* integers on both sides of the limits, or not a number
ProbedValues == { Num(-30), Num(-20), Num(-12), Num(-6), Num(-3), Num(0), Num(5),
                  Num(30), NonNumeric }
ProbedModifiers == UNION { [keys -> ProbedValues] : keys \in SUBSET {"politics", "charisma"} }
ProbedTraits ==
    { [ id |-> "p", name |-> "probe", rarity |-> r, modifiers |-> m,
        hasDuration |-> FALSE, duration |-> 0 ] :
        r \in TraitRarities \cup {"legendery"}, m \in ProbedModifiers }
Proposed(mods) == [ k \in DOMAIN mods |-> mods[k].n ]
AllNegative(mods) == DOMAIN mods # {} /\ \A k \in DOMAIN mods : mods[k] < 0
Severe(mods) ==
    /\ AllNegative(mods)
    /\ SumOver(mods, DOMAIN mods) < -15
    /\ "politics" \in DOMAIN mods
AllNumbers(t) == \A k \in DOMAIN t.modifiers : t.modifiers[k].isNumber
ActiveTraits ==
    IF gameState = Null THEN {}
    ELSE { gameState.stats.traits[i] : i \in 1..Len(gameState.stats.traits) }

SevereProbesAreCrime ==
    \A t \in ProbedTraits :
       (AllNumbers(t) /\ Severe(Proposed(t.modifiers))) => SanitizeTrait(t).rarity = "CRIME"
SanitizedProbesInRange ==
    \A t \in ProbedTraits :
       LET mods == SanitizeTrait(t).modifiers
       IN  /\ \A k \in DOMAIN mods : mods[k] \in (-20..20) \ {0}
           /\ \A k \in DOMAIN t.modifiers : ~t.modifiers[k].isNumber => k \notin DOMAIN mods

\* C22: sanitizeTraits gives the rarity CRIME to every proposed trait whose
\* modifiers are all negative, sum to less than -15 and include a negative
\* politics modifier, whatever rarity was proposed; so every active trait with
\* such modifiers is a CRIME trait.
C22_SevereIsCrime ==
    /\ SevereProbesAreCrime
    /\ \A t \in ActiveTraits : Severe(t.modifiers) => t.rarity = "CRIME"
C22_PurgedIsCrime ==
    /\ gameState # Null /\ Len(gameState.historySummary) > 0
    /\ \E t \in ActiveTraits :
          t.name = "purged" /\ t.rarity = "CRIME" /\ t.modifiers = [politics |-> -12, charisma |-> -6]

\* C23: sanitizeTraits gives the rarity NEGATIVE to every proposed trait whose
\* modifiers are all negative without being severe, whatever rarity was
\* proposed, CRIME included; so every active trait with such modifiers is a
\* NEGATIVE trait.
C23_MildIsNegative ==
    \A t \in ActiveTraits :
       (AllNegative(t.modifiers) /\ ~Severe(t.modifiers)) => t.rarity = "NEGATIVE"

\* C24: every modifier sanitizeTraits returns is a non-zero integer within
\* [-20,20], a value that is not a number being dropped; and every modifier of
\* every active trait is within [-20,20].
C24_ModifiersInRange ==
    /\ SanitizedProbesInRange
    /\ \A t \in ActiveTraits :
          \A k \in DOMAIN t.modifiers : t.modifiers[k] \in (-20..20) \ {0}
C24_VeteranClamped ==
    /\ gameState # Null /\ Len(gameState.historySummary) > 0
    /\ \E t \in ActiveTraits :
          t.name = "veteran" /\ t.modifiers = [politics |-> 2, physique |-> 20]

\* C25: in every state no two active traits have the same id, also after a
\* merge whose additions carry the id of a still active trait of another name.
C25_UniqueTraitIds ==
    gameState # Null =>
       \A i, j \in 1..Len(gameState.stats.traits) :
          i # j => gameState.stats.traits[i].id # gameState.stats.traits[j].id

\* C26: after every turn merge no active trait has a duration of zero or less,
\* also when the trait was added in that turn or no month elapsed in it.
C26_NoExpiredTraitAfterMerge ==
    [][\A i \in 1..Len(calls) :
          calls[i].type = "TURN" =>
             \A response \in TurnResponses(calls[i].prevState) :
                TurnLands(i, response) =>
                   \A t \in ActiveTraits' : t.hasDuration => t.duration > 0]_vars

\* base attributes and lists of sanitized traits probed for
\* calculateEffectiveAttributes
ProbedBases == { BaseAttributes, [BaseAttributes EXCEPT !["politics"] = 0, !["physique"] = 18] }
ProbedLists ==
    { sanitizeTraits(List(items)) :
        items \in { << >>, << Veteran >>, << Purged, Wounded >>, << Veteran, Purged, Crippled >>,
                    << Wounded, Wounded, Veteran >> } }
ModifierOf(t, key) == IF key \in DOMAIN t.modifiers THEN t.modifiers[key] ELSE 0
BasePlusModifiers(base, traits, attributes) ==
    /\ DOMAIN attributes = DOMAIN base
    /\ \A key \in DOMAIN base :
          attributes[key] =
             base[key] + SumOver([i \in 1..Len(traits) |-> ModifierOf(traits[i], key)],
                                 1..Len(traits))
ProbedEffectiveAttributes ==
    \A base \in ProbedBases, traits \in ProbedLists :
       BasePlusModifiers(base, traits, calculateEffectiveAttributes(base, traits))

\* C27: calculateEffectiveAttributes returns, for every dimension, the base
\* value plus the sum of that dimension's modifiers over all active traits, and
\* the base attributes of the game stay what they were.
C27_EffectiveIsBasePlusModifiers ==
    /\ ProbedEffectiveAttributes
    /\ gameState # Null =>
          /\ BasePlusModifiers(gameState.stats.attributes, gameState.stats.traits,
                               EffectiveAttributes)
          /\ gameState.stats.attributes =
                IF gameState.name = HeirName THEN HeirAttributes ELSE BaseAttributes
C27_TwoTraitsOnPhysique ==
    /\ gameState # Null /\ Len(gameState.stats.traits) >= 2
    /\ EffectiveAttributes["physique"] = 22 /\ EffectiveAttributes["politics"] = 7
    /\ gameState.stats.attributes["physique"] = 5
    /\ ui.rollingChoice # NoChoice /\ ui.rollingChoice.attrVal = 22

\* C28: a merge leaves the player a leader when the roster entry of the
\* player's faction lists the player among its leaders, and a merge whose
\* response carries no player-faction update never turns a leader into a
\* member.
C28_PromotionOneWay ==
    [][\A i \in 1..Len(calls) :
          calls[i].type = "TURN" =>
             \A response \in TurnResponses(calls[i].prevState) :
                TurnLands(i, response) =>
                   /\ (\E n \in 1..Len(gameState'.factions) :
                          /\ gameState'.factions[n].name = gameState'.stats.currentFaction
                          /\ "leaders" \in DOMAIN gameState'.factions[n]
                          /\ \E leaderName \in gameState'.factions[n].leaders :
                                Includes(leaderName, gameState'.name))
                       => gameState'.stats.isLeader
                   /\ (/\ response.playerFactionUpdate = NoFactionUpdate
                       /\ gameState # Null /\ gameState.stats.isLeader)
                       => gameState'.stats.isLeader]_vars

\* C29: after a start, a succession start or a turn has failed, handleRetry
\* issues the same operation again with the parameters of the failed attempt;
\* a retried succession start is again told the world of the predecessor.
C29_RetryReissuesFailed ==
    [][(ghost.failed # Null /\ HandleRetry)
          => Operation(calls'[Len(calls')]) = ghost.failed]_vars

\* C30: after handleRestart('new') the live GameState is null, and stays null
\* until a character is started or a save is loaded, whatever answer arrives.
C30_NullAfterRestart == ghost.restarted => gameState = Null

\* C31: in every reachable state a non-empty list of candidate successors
\* implies that the game is over.
C31_SuccessorsOnlyAtGameOver ==
    (gameState # Null /\ gameState.potentialSuccessors # {})
    => gameState.isGameOver

\* C32: with cheat mode off, a turn reported by a roll interaction that began
\* with f fate points and spent k of them (the live counter stood at f - k
\* when the report was submitted, no other call is in flight and nothing
\* else touched the counter since) leaves
\* min(5, (f - k) + e) fate points after its merge, e being 1 when the
\* reported outcome earns a fate point and 0 otherwise.
C32_FatePointsAfterTurn ==
    [][\A i \in 1..Len(calls) :
          (/\ calls[i].type = "TURN"
           /\ ~cheatMode /\ Len(calls) = 1
           /\ calls[i].stateAtSubmit # Null) =>
             \A response \in TurnResponses(calls[i].prevState) :
                TurnLands(i, response)
                => gameState'.stats.redStars =
                      Min(RedStarCap,
                          calls[i].stateAtSubmit.stats.redStars
                             + (IF calls[i].params.earnStar THEN 1 ELSE 0))]_vars

\* the two ways out of the offer that follows a critical draw: the player
\* customises (a new draw starts) or proceeds (the turn is reported)
CriticalOffered ==
    /\ ui.showCriticalCustomModal /\ ~ui'.showCriticalCustomModal
    /\ ~ui.isLeaderManipulating /\ ~ui.isPityAction
    /\ ui.pendingCritical # NoChoice
CustomChosen == CriticalOffered /\ anim' # Null
ProceedChosen == CriticalOffered /\ anim' = Null

\* C33 as stated: customising spends exactly one fate point.
C33_CustomiseSpendsOne ==
    [][CustomChosen => gameState'.stats.redStars = gameState.stats.redStars - 1]_vars

\* C33: after a critical draw, customising spends exactly one fate point (none
\* in cheat mode) and starts a draw for the free-text action against the
\* threshold and the critical floor of the draw that produced the critical;
\* proceeding spends no fate point and reports the authored choice as a
\* critical success.
C33_CriticalStep ==
    [][/\ CustomChosen =>
             /\ gameState'.stats.redStars =
                   (IF cheatMode THEN gameState.stats.redStars
                    ELSE gameState.stats.redStars - 1)
             /\ ui'.interactionStarsConsumed = ui.interactionStarsConsumed + 1
             /\ anim'.choice.id = CustomChoiceId
             /\ anim'.threshold = ghost.drawn.threshold
             /\ anim'.critThreshold = ghost.drawn.critThreshold
             /\ Len(calls') = Len(calls)
       /\ ProceedChosen =>
             /\ Len(calls') = Len(calls) + 1
             /\ Reported.choiceId = ui.pendingCritical.id
             /\ Reported.choiceText = ui.pendingCritical.text
             /\ Reported.rollResult = "CRITICAL_SUCCESS"
             /\ gameState'.stats.redStars = gameState.stats.redStars]_vars

\* a reroll against 45 was drawn critical and the player customised with the
\* second of 3 fate points: the custom action is drawn against 45 and 95
C33_CustomAfterReroll ==
    /\ anim # Null
    /\ anim.choice.id = CustomChoiceId
    /\ anim.threshold = 45 /\ anim.critThreshold = 95
    /\ ui.interactionStarsConsumed = 2
    /\ gameState # Null /\ gameState.stats.redStars = 1

\* what the claims on the trait merge speak of: the active traits whose id a
\* response removes, the names it adds, and the additions that no later
\* addition of the same name evicts
RemovedBy(response, prevState) ==
    SelectSeq(prevState.stats.traits, LAMBDA t : t.id \in response.traitsUpdate.removeIds)
AddedNames(response) ==
    { response.traitsUpdate.add[n].name : n \in 1..Len(response.traitsUpdate.add) }
Lasting(add) ==
    LET idx == { n \in 1..Len(add) : \A m \in (n + 1)..Len(add) : add[m].name # add[n].name }
        rank(n) == Cardinality({ k \in idx : k <= n })
    IN  [ r \in 1..Cardinality(idx) |-> add[CHOOSE n \in idx : rank(n) = r] ]
Survivors(response, prevState) ==
    SelectSeq(prevState.stats.traits,
              LAMBDA t : /\ t.id \notin response.traitsUpdate.removeIds
                         /\ t.name \notin AddedNames(response))
Aged(traits, response, prevState) ==
    IF MonthIndex(response) > MonthIndex(prevState)
    THEN Expire(traits, MonthIndex(response) - MonthIndex(prevState))
    ELSE traits
DistinctNames(traits) ==
    \A m, n \in 1..Len(traits) : m # n => traits[m].name # traits[n].name
LastEntry(gs) == gs.historySummary[Len(gs.historySummary)]

\* C34 as stated: the list after the merge (aged by the months that passed)
\* is the prior list minus removed ids minus same-name traits, followed by
\* the additions.
C34_FollowedByTheAdditions ==
    [][\A i \in 1..Len(calls) :
          calls[i].type = "TURN" =>
             \A response \in TurnResponses(calls[i].prevState) :
                TurnLands(i, response) =>
                   gameState'.stats.traits =
                      Aged(Survivors(response, calls[i].prevState)
                              \o response.traitsUpdate.add,
                           response, calls[i].prevState)]_vars

\* C34: the log of a merged turn holds one REMOVE entry per active trait whose
\* id is removed, in list order, then one ADD entry per addition, in the order
\* of the additions; and when the prior names are distinct the list after the
\* merge is, aged by the months that passed, the prior list minus removed ids
\* minus same-name traits, followed by the additions that no later addition
\* of the same name has evicted.
C34_MergeOrderAndLog ==
    [][\A i \in 1..Len(calls) :
          calls[i].type = "TURN" =>
             \A response \in TurnResponses(calls[i].prevState) :
                (/\ gameState' # Null
                 /\ Len(calls') < Len(calls)
                 /\ Len(gameState'.historySummary) > 0
                 /\ TurnLands(i, response)) =>
                   LET prev == calls[i].prevState
                       removed == RemovedBy(response, prev)
                       add == response.traitsUpdate.add
                       log == LastEntry(gameState').traitChanges
                   IN  /\ Len(log) = Len(removed) + Len(add)
                       /\ \A n \in 1..Len(removed) :
                             log[n].type = "REMOVE" /\ log[n].name = removed[n].name
                       /\ \A n \in 1..Len(add) :
                             /\ log[Len(removed) + n].type = "ADD"
                             /\ log[Len(removed) + n].name = add[n].name
                       /\ DistinctNames(prev.stats.traits) =>
                             gameState'.stats.traits =
                                Aged(Survivors(response, prev) \o Lasting(add),
                                     response, prev)]_vars

\* a merge removed the trait of id t1 and added two traits named "wounded":
\* one REMOVE and two ADD entries are logged and one "wounded" is active
C34_TwoAddsOneTrait ==
    /\ gameState # Null /\ gameState.historySummary # << >>
    /\ LET log == LastEntry(gameState).traitChanges
       IN  /\ Len(log) = 3
           /\ log[1].type = "REMOVE"
           /\ log[2].type = "ADD" /\ log[3].type = "ADD"
           /\ log[2].name = "wounded" /\ log[3].name = "wounded"
    /\ Cardinality({ n \in 1..Len(gameState.stats.traits) :
                        gameState.stats.traits[n].name = "wounded" }) = 1

\* C35: for a merged turn that was the only call in flight, whose report
\* carries the fate points actually spent and whose submission state nothing
\* else touched, the deltas of the new history entry are the actual changes:
\* deltas.redStars is the fate points after the merge less those held when
\* the interaction began, and deltas.powerPoints is the power points after
\* the merge less those held before the action was submitted.
C35_DeltasAreActualChange ==
    [][\A i \in 1..Len(calls) :
          (/\ calls[i].type = "TURN"
           /\ ~cheatMode /\ Len(calls) = 1
           /\ calls[i].stateAtSubmit # Null
           /\ calls[i].params.consumedRedStars = calls[i].starsSpent) =>
             \A response \in TurnResponses(calls[i].prevState) :
                TurnLands(i, response) =>
                   LET before == calls[i].stateAtSubmit.stats
                       deltas == LastEntry(gameState').deltas
                   IN  /\ deltas.redStars =
                            gameState'.stats.redStars
                               - (before.redStars + calls[i].starsSpent)
                       /\ deltas.powerPoints =
                            gameState'.stats.powerPoints - before.powerPoints]_vars

\* C36: a merged response whose player-faction update sets the leadership
\* flag to false leaves a state whose leadership flag is false.
C36_ExplicitDemotion ==
    [][\A i \in 1..Len(calls) :
          calls[i].type = "TURN" =>
             \A response \in TurnResponses(calls[i].prevState) :
                (/\ response.playerFactionUpdate # NoFactionUpdate
                 /\ ~response.playerFactionUpdate.isLeader
                 /\ TurnLands(i, response))
                => ~gameState'.stats.isLeader]_vars

\* C37: while the game is over no step submits a turn, and the merge of a
\* turn leaves the game over.
C37_GameOverAbsorbing ==
    [][(gameState # Null /\ gameState.isGameOver) =>
          /\ ~(/\ Len(calls') = Len(calls) + 1
               /\ calls'[Len(calls')].type = "TURN")
          /\ \A i \in 1..Len(calls) :
                calls[i].type = "TURN" =>
                   \A response \in TurnResponses(calls[i].prevState) :
                      TurnLands(i, response) => gameState'.isGameOver]_vars

\* C38: when the narrative call of a turn answers after withTimeout rejected
\* the turn, the answer is dropped: the step changes neither the GameState nor
\* the offered choices.
C38_LateAnswerDiscarded ==
    [][\A i \in 1..Len(calls) :
          (calls[i].type = "LATE" /\ calls' = RemoveAt(calls, i))
          => (gameState' = gameState /\ choices' = choices)]_vars

\* a turn timed out, the player retried, the retry was merged, and then the
\* answer of the first call arrived: the state still holds the retry's turn
C38_AnsweredLate ==
    /\ ghost.answeredLate
    /\ gameState # Null /\ Len(gameState.historySummary) = 1
    /\ calls = << >>
    /\ turnNo = 1 /\ ~isLoading /\ ~isError

\* one round of callWithRetry for every value of the counter and every
\* outcome: a result is returned, an error that is not a rate limit is thrown,
\* a rate limit is waited for while the counter is below retries and thrown
\* when it has reached retries
RoundsOfCallWithRetry ==
    \A attempt \in 0..Retries : \A outcome \in Outcomes :
       LET round == callWithRetry(attempt, outcome)
           limited == outcome \in {"429", "quota", "RESOURCE_EXHAUSTED"}
       IN  /\ outcome = "ok" => round.kind = "return"
           /\ (outcome # "ok" /\ ~limited) => (round.kind = "throw" /\ round.error = outcome)
           /\ (limited /\ attempt < Retries) => (round.kind = "wait" /\ round.attempt = attempt + 1)
           /\ (limited /\ attempt = Retries) => (round.kind = "throw" /\ round.error = outcome)

\* the step in which callWithRetry waits after a rate-limited attempt of call i
WaitsAfterLimit(i) ==
    /\ i \in 1..Len(calls) /\ Len(calls') = Len(calls)
    /\ calls[i].type = "TURN" /\ calls'[i].type = "TURN"
    /\ calls'[i].attempt # calls[i].attempt

====
